---- MODULE Spec2Model ----
(***************************************************************************)
(* Billing pipeline of ai_chat_billing_app: the token-metrics consumer     *)
(* (handle_token_metrics), the API-side token writer                       *)
(* (process_message_tokens), the thread metrics endpoint                   *)
(* (get_thread_billing_metrics) and the Redis metrics cache.               *)
(*                                                                         *)
(* Money is an integer number of 1e-8 dollars.  The database is the        *)
(* default one of core/config.py (SQLite): an INTEGER PRIMARY KEY gets     *)
(* max(rowid)+1 and foreign keys are not enforced.                         *)
(***************************************************************************)
EXTENDS Integers, Sequences, FiniteSets, TLC

VARIABLES
    messages,          \* user_thread_messages: message_id -> row
    message_tokens,    \* message_tokens rows
    line_items,        \* user_invoice_line_item rows
    token_pricing,     \* dim_token_pricing rows
    commits,           \* number of ledger commits so far (ghost clock)
    thread_metrics,    \* Redis billing:thread_metrics:<id>, a set of <= 1 value
    user_metrics,      \* Redis billing:user_metrics:<id>, a set of <= 1 value
    token_metrics_topic, \* events in flight on the token-metrics topic
    published,         \* number of events published so far
    proc,              \* the token-metrics consumer task and its handler
    last_outcome,      \* how the handler of the last finished event ended
    background_tasks,  \* process_message_tokens tasks of the turn, not yet ended
    task_pc,           \* how far the first of them has got: "commit" or "publish"
    turn,              \* the create_message request of the turn, until it returns
    reader,            \* one GET /metrics/thread request and its response
    cache_tasks,       \* asyncio tasks created by the endpoint, not yet run
    reads,             \* number of requests started so far
    ureader,           \* one GET /metrics/user request and its response
    user_cache_tasks,  \* asyncio tasks created by that endpoint, not yet run
    ureads,            \* number of user metrics requests started so far
    invoices,          \* user_invoices rows
    inv_reqs,          \* POST /generate-invoice requests: slot -> progress
    line_item_tasks,   \* generate_invoice_line_items background tasks, not yet run
    event_types,       \* dim_event_types rows
    api_events,        \* api_events rows
    resource_line_items, \* resource_invoice_line_item rows
    resource_pricing,  \* dim_resource_pricing rows
    inference_topic,   \* payloads in flight on the inference-events topic
    res_published,     \* number of payloads published on that topic so far
    res_proc,          \* the inference-events consumer task and its handler
    res_outcome,       \* how the consumer's last finished event ended
    res_consumed,      \* number of payloads the consumer has taken so far
    fetch_errors,      \* number of times the consumer's fetch has failed
    consumer_errors,   \* number of exceptions the consumer has caught and logged
                       \* per message
    service,           \* how far the shutdown of the message processors has got
    dim_models,        \* dim_models rows (their ids)
    dim_users,         \* dim_users rows (their ids)
    startups,          \* number of times the application has been started
    thread_messages,   \* Redis billing:thread_messages:<id>, <<>> when absent
    message_tokens_cache, \* Redis billing:message_tokens:<id>, NULL when absent
    stream_topics,     \* payloads in flight on raw_messages and llm_responses
    msg_procs,         \* the consumer task of each of these two topics
    msg_published,     \* number of payloads published on them so far
    chat,              \* one streamed chat turn: the LLM stream and its handler
    contents           \* user_thread_messages.content: message_id -> text

vars == <<messages, message_tokens, line_items, token_pricing, commits,
          thread_metrics, user_metrics, token_metrics_topic, published,
          proc, last_outcome, background_tasks, task_pc, turn, reader, cache_tasks, reads,
          ureader, user_cache_tasks, ureads,
          invoices, inv_reqs, line_item_tasks,
          event_types, api_events, resource_line_items, resource_pricing,
          inference_topic, res_published, res_proc, res_outcome, res_consumed,
          fetch_errors, consumer_errors,
          service, dim_models, dim_users, startups,
          thread_messages, message_tokens_cache, stream_topics, msg_procs,
          msg_published, chat, contents>>

\* the state of the user metrics endpoint
user_rd_vars == <<ureader, user_cache_tasks, ureads>>

\* the state of the subsystems the chat-turn pipeline never writes
\* the state of invoice generation
inv_vars == <<invoices, inv_reqs, line_item_tasks>>

\* the state of resource (inference event) billing
res_vars == <<event_types, api_events, resource_line_items, resource_pricing,
              inference_topic, res_published, res_proc, res_outcome, res_consumed,
              fetch_errors, consumer_errors>>

\* what setup_database looks at and counts
boot_vars == <<dim_models, dim_users, startups>>

\* the life cycle of the application and its message processors
msg_vars == <<thread_messages, message_tokens_cache, stream_topics, msg_procs,
              msg_published>>

chat_vars == <<chat, contents>>

svc_vars == <<service, boot_vars, msg_vars, chat_vars>>

ext_vars == <<user_rd_vars, svc_vars, inv_vars, res_vars, svc_vars>>

ledger_vars == <<messages, message_tokens, line_items, token_pricing>>

----------------------------------------------------------------------------
\* Bounds of the model
MaxTokens == 2        \* token counts in an event range over 0..MaxTokens
MaxEvents == 2        \* events published on the token-metrics topic
MaxReads  == 1        \* metrics requests issued
MaxUserReads == 2     \* user metrics requests issued
MaxInvoiceRequests == 2   \* generate-invoice requests issued
MaxResourceEvents == 2    \* payloads published on the inference topic
MaxQuantity == 2          \* largest quantity of a resource event
MaxFetchErrors == 1       \* failures of the consumer's fetch
MaxStartups == 2          \* starts of the application

\* Program constants (1e-8 dollars per token)
DEFAULT_INPUT_TOKEN_PRICE  == 100
DEFAULT_OUTPUT_TOKEN_PRICE == 500
RoundUnit == 100      \* round(x, 6): six fractional digits = 100 units
Tolerance == 100      \* 1e-6 dollars

NULL == -1            \* SQL NULL in an integer column
NoId == 0             \* a missing (None) id in an event payload
Absent == -2          \* a key the payload does not have

Threads == {1, 2}
Users == {1}
ThreadRow == [t \in Threads |-> [user_id |-> 1, created_at |-> 1]]
MissingThreadId == 3
Models == {1, 2}

\* The message rows when create_message returns from one chat turn: the
\* user message with n1 counted tokens and the assistant reply with n2
\* (lines 144-152, 181-189, 248-250).
InitMessages(n1, n2) ==
    (1 :> [thread_id |-> 1, user_id |-> 1, role |-> "user",
           model_id |-> 1, token_count |-> n1, created_at |-> 2])
    @@
    (2 :> [thread_id |-> 1, user_id |-> 1, role |-> "assistant",
           model_id |-> 1, token_count |-> n2, created_at |-> 3])

\* The background tasks create_message has added for that turn, in the
\* order they will run (lines 206-219): process_message_tokens for the
\* user message with {input: n1, output: 0}, then for the reply with
\* {input: 0, output: n2}, both under the model of the request.
TurnTasks(n1, n2) ==
    << [message_id |-> 1, model_id |-> 1, input_tokens |-> n1, output_tokens |-> 0],
       [message_id |-> 2, model_id |-> 1, input_tokens |-> 0, output_tokens |-> n2] >>

MissingMessageId == 3

\* One current price row, for model 1; model 2 has none.
SeededPricing ==
    {[pricing_id |-> 1, model_id |-> 1, input_token_price |-> 60,
      output_token_price |-> 140, effective_from |-> 1, is_current |-> TRUE]}

\* Payloads seen on the token-metrics topic: every usage for the user
\* message under the priced model, what process_message_tokens publishes
\* for the assistant reply, one event that names the unpriced model, one
\* for a message that does not exist, and two that lack a required field.
Events ==
    [message_id : {1}, model_id : {1},
     input_tokens : 0..MaxTokens, output_tokens : 0..MaxTokens]
    \cup
    [message_id : {2}, model_id : {1},
     input_tokens : {0}, output_tokens : 0..MaxTokens]
    \cup
    [message_id : {1}, model_id : {2, NoId},
     input_tokens : {1}, output_tokens : {1}]
    \cup
    [message_id : {MissingMessageId, NoId}, model_id : {1},
     input_tokens : {1}, output_tokens : {1}]

NoEvent == [message_id |-> NoId, model_id |-> NoId,
            input_tokens |-> 0, output_tokens |-> 0]

----------------------------------------------------------------------------
\* Arithmetic helpers

SetMax(S) == CHOOSE x \in S : \A y \in S : y <= x

\* func.sum(token_count) over a set of rows
RECURSIVE SumTokenCount(_)
SumTokenCount(rows) ==
    IF rows = {} THEN 0
    ELSE LET x == CHOOSE y \in rows : TRUE
         IN x.token_count + SumTokenCount(rows \ {x})

\* sum of the amounts of a set of line items
RECURSIVE SumAmount(_)
SumAmount(rows) ==
    IF rows = {} THEN 0
    ELSE LET x == CHOOSE y \in rows : TRUE
         IN x.amount + SumAmount(rows \ {x})

Abs(x) == IF x < 0 THEN -x ELSE x

\* Non-negative integers of any size, as the sequence of their base-10000
\* digits, lowest first, without leading zero digits (0 is <<>>)
BigBase == 100 * 100

RECURSIVE BigOf(_)
BigOf(n) == IF n = 0 THEN <<>> ELSE <<n % BigBase>> \o BigOf(n \div BigBase)

\* a * k + carry for an integer k of at most 17 bits
RECURSIVE BigTimes(_, _, _)
BigTimes(a, k, carry) ==
    IF a = <<>> THEN BigOf(carry)
    ELSE LET t == Head(a) * k + carry
         IN <<t % BigBase>> \o BigTimes(Tail(a), k, t \div BigBase)

RECURSIVE BigPlus(_, _, _)
BigPlus(a, b, carry) ==
    IF a = <<>> /\ b = <<>> THEN BigOf(carry)
    ELSE LET x == IF a = <<>> THEN 0 ELSE Head(a)
             y == IF b = <<>> THEN 0 ELSE Head(b)
             t == x + y + carry
         IN <<t % BigBase>> \o BigPlus(IF a = <<>> THEN <<>> ELSE Tail(a),
                                       IF b = <<>> THEN <<>> ELSE Tail(b),
                                       t \div BigBase)

\* -1, 0 or 1 as a is less than, equal to or greater than b
RECURSIVE BigCmp(_, _)
BigCmp(a, b) ==
    IF Len(a) # Len(b) THEN (IF Len(a) < Len(b) THEN -1 ELSE 1)
    ELSE IF a = <<>> THEN 0
    ELSE LET n == Len(a)
         IN IF a[n] # b[n] THEN (IF a[n] < b[n] THEN -1 ELSE 1)
            ELSE BigCmp(SubSeq(a, 1, n - 1), SubSeq(b, 1, n - 1))

RECURSIVE BigTrim(_)
BigTrim(a) ==
    IF a # <<>> /\ a[Len(a)] = 0 THEN BigTrim(SubSeq(a, 1, Len(a) - 1)) ELSE a

\* quotient and remainder of rem * BigBase^Len(a) + a by an integer d of at
\* most 17 bits
RECURSIVE BigDivide(_, _, _)
BigDivide(a, d, rem) ==
    IF a = <<>> THEN [q |-> <<>>, r |-> rem]
    ELSE LET n == Len(a)
             t == rem * BigBase + a[n]
             rest == BigDivide(SubSeq(a, 1, n - 1), d, t % d)
         IN [q |-> Append(rest.q, t \div d), r |-> rest.r]

BigQuotient(a, d) == BigTrim(BigDivide(a, d, 0).q)

\* a * 2^k
RECURSIVE BigShift(_, _)
BigShift(a, k) ==
    IF k = 0 THEN a
    ELSE IF k >= 16 THEN BigShift(BigTimes(a, 65536, 0), k - 16)
    ELSE BigTimes(a, 2^k, 0)

\* floor(a / 2^k)
RECURSIVE BigShiftDown(_, _)
BigShiftDown(a, k) ==
    IF k = 0 THEN a
    ELSE IF k >= 16 THEN BigShiftDown(BigQuotient(a, 65536), k - 16)
    ELSE BigQuotient(a, 2^k)

\* the value of a number of at most two digits
BigLow(a) ==
    IF a = <<>> THEN 0 ELSE IF Len(a) = 1 THEN a[1] ELSE a[1] + BigBase * a[2]

BigOdd(a) == a # <<>> /\ a[1] % 2 = 1

\* An IEEE 754 double (Python float) that is not negative: m * 2^e with
\* 2^52 <= m < 2^53, or zero
Two52 == BigShift(<<1>>, 52)
Two53 == BigShift(<<1>>, 53)
FloatZero == [m |-> <<>>, e |-> 0]

\* the least s with floor(N / 2^s) < 2^53
RECURSIVE BitsOver(_, _)
BitsOver(N, s) ==
    IF BigCmp(BigQuotient(N, 2^s), Two53) < 0 THEN s ELSE BitsOver(N, s + 1)

\* the double nearest to N * 2^e, an exact half going to the even mantissa
RECURSIVE RoundedFloat(_, _)
RoundedFloat(N, e) ==
    IF BigCmp(N, Two52) < 0 THEN RoundedFloat(BigTimes(N, 2, 0), e - 1)
    ELSE LET s == BitsOver(N, 0)
             d == 2^s
             q == BigQuotient(N, d)
             r == BigDivide(N, d, 0).r
             m == IF 2 * r > d \/ (2 * r = d /\ BigOdd(q))
                  THEN BigPlus(q, <<1>>, 0) ELSE q
         IN IF BigCmp(m, Two53) = 0 THEN [m |-> Two52, e |-> e + s + 1]
            ELSE [m |-> m, e |-> e + s]

\* N = p * 2^k with the least k >= the k given for which
\* floor(N / 10^8) >= 2^52
RECURSIVE ScaledPrice(_, _)
ScaledPrice(N, k) ==
    IF BigCmp(SubSeq(N, 3, Len(N)), Two52) >= 0 THEN [n |-> N, k |-> k]
    ELSE ScaledPrice(BigTimes(N, 2, 0), k + 1)

\* the float of a price of p units of 1e-8 dollars, as the literal in the
\* source or the REAL read from the column gives it: the double nearest
\* to p / 10^8
FloatOf(p) ==
    IF p = 0 THEN FloatZero
    ELSE LET sc == ScaledPrice(BigShift(BigOf(p), 48), 48)
             q == SubSeq(sc.n, 3, Len(sc.n))
             r == BigLow(SubSeq(sc.n, 1, 2))
             m == IF r > 50000000 \/ (r = 50000000 /\ BigOdd(q))
                  THEN BigPlus(q, <<1>>, 0) ELSE q
         IN IF BigCmp(m, Two53) = 0 THEN [m |-> Two52, e |-> 1 - sc.k]
            ELSE [m |-> m, e |-> 0 - sc.k]

\* n * f for a Python int n
FloatTimes(n, f) ==
    IF n = 0 \/ f.m = <<>> THEN FloatZero ELSE RoundedFloat(BigTimes(f.m, n, 0), f.e)

\* f + g
FloatPlus(f, g) ==
    IF f.m = <<>> THEN g
    ELSE IF g.m = <<>> THEN f
    ELSE IF f.e >= g.e
    THEN RoundedFloat(BigPlus(BigShift(f.m, f.e - g.e), g.m, 0), g.e)
    ELSE RoundedFloat(BigPlus(BigShift(g.m, g.e - f.e), f.m, 0), f.e)

\* Python round(f, 6) of a float below 1, in units of 1e-8: the multiple
\* of 1e-6 nearest to the exact value of f (an exact half going to the
\* even multiple)
Round6(f) ==
    IF f.m = <<>> THEN 0
    ELSE LET N == BigTimes(BigTimes(f.m, 1000, 0), 1000, 0)
             k == 0 - f.e
             q == BigLow(BigShiftDown(N, k))
             c == BigCmp(BigTimes(N, 2, 0), BigShift(BigOf(2 * q + 1), k))
         IN IF c > 0 \/ (c = 0 /\ q % 2 = 1) THEN (q + 1) * RoundUnit
            ELSE q * RoundUnit

\* the multiple of 1e-6 nearest to an amount of x units that is not half-way
\* between two multiples
Nearest6(x) == ((x + RoundUnit \div 2) \div RoundUnit) * RoundUnit

\* round(v, 6) for the float v the code has computed for an amount whose
\* exact value is x units.  The error of v is below 1e-15 of x, so only an
\* x half-way between two multiples of 1e-6 has the float decide.
Round6Of(x, v) ==
    IF x % RoundUnit # RoundUnit \div 2 THEN Nearest6(x) ELSE Round6(v)

\* message_processor.py lines 139 and 166:
\* round(tokens * float(price), 6)
LineAmount(count, price) ==
    Round6Of(count * price, FloatTimes(count, FloatOf(price)))

\* message_processor.py line 264, billing.py line 273:
\* round((input_tokens * input_price) + (output_tokens * output_price), 6)
ThreadCost(inp, pin, out, pout) ==
    Round6Of(inp * pin + out * pout,
             FloatPlus(FloatTimes(inp, FloatOf(pin)), FloatTimes(out, FloatOf(pout))))

----------------------------------------------------------------------------
\* The ledger as one value: what a transaction reads and writes
Ledger == [messages |-> messages, message_tokens |-> message_tokens,
           line_items |-> line_items]

\* Next value of an INTEGER PRIMARY KEY column (SQLite rowid: max + 1)
NextTokenId(toks) ==
    IF toks = {} THEN 1 ELSE SetMax({t.token_id : t \in toks}) + 1

NextLineItemId(lis) ==
    IF lis = {} THEN 1 ELSE SetMax({l.line_item_id : l \in lis}) + 1

\* db.query(DimTokenPricing).filter(model_id == m, is_current).first():
\* the set is empty or holds the matching row of lowest rowid
CurrentPricing(pricing, m) ==
    LET rows == {p \in pricing : p.model_id = m /\ p.is_current}
    IN IF rows = {} THEN {}
       ELSE {CHOOSE p \in rows : \A q \in rows : p.pricing_id <= q.pricing_id}

\* lines 100-106: unit prices used by the handler
HandlerInputPrice(pr) ==
    IF pr = {} THEN DEFAULT_INPUT_TOKEN_PRICE
    ELSE (CHOOSE p \in pr : TRUE).input_token_price

HandlerOutputPrice(pr) ==
    IF pr = {} THEN DEFAULT_OUTPUT_TOKEN_PRICE
    ELSE (CHOOSE p \in pr : TRUE).output_token_price

\* lines 86-88: query(UserThreadMessage).filter(message_id == id).first(),
\* as the set of ids of the row found (empty: None)
FindMessageNoFilter(L, id) ==
    IF DOMAIN L.messages = {} THEN {}
    ELSE {CHOOSE m \in DOMAIN L.messages : \A x \in DOMAIN L.messages : m <= x}

FindMessage(L, id) == {m \in DOMAIN L.messages : m = id}

\* lines 112-117: the denormalized token_count of the message row found
SetTokenCount(L, found, e) ==
    LET n == IF L.messages[found].role = "user"
             THEN e.input_tokens ELSE e.output_tokens
    IN [L EXCEPT !.messages[found].token_count = n]

\* lines 122-146 and 148-173: delete the records of one type, insert a
\* fresh one, and add a line item when a price row was found
ReplaceTokenRecord(L, mid, type, count, pr, price) ==
    LET kept == {t \in L.message_tokens :
                    ~(t.message_id = mid /\ t.token_type = type)}
        tid == NextTokenId(kept)
        tok == [token_id |-> tid, message_id |-> mid, token_type |-> type,
                token_count |-> count]
        li == [line_item_id |-> NextLineItemId(L.line_items),
               message_id |-> mid, token_id |-> tid,
               pricing_id |-> (CHOOSE p \in pr : TRUE).pricing_id,
               amount |-> LineAmount(count, price)]
    IN [L EXCEPT !.message_tokens = kept \cup {tok},
                 !.line_items = IF pr # {} THEN @ \cup {li} ELSE @]

TypeAlwaysPresent(count) == TRUE

\* lines 122 and 148: `if input_tokens > 0`, `if output_tokens > 0`
TypePresent(count) == count > 0

\* The writes of handle_token_metrics in program order; TxnAfter(L, e, k)
\* is the session after the first k of them (k = 3: all, ready to commit).
TxnAfter(L, e, k) ==
    LET pr == CurrentPricing(token_pricing, e.model_id)
        found == CHOOSE m \in FindMessage(L, e.message_id) : TRUE
        s1 == SetTokenCount(L, found, e)
        s2 == IF TypePresent(e.input_tokens)
              THEN ReplaceTokenRecord(s1, e.message_id, "input",
                       e.input_tokens, pr, HandlerInputPrice(pr))
              ELSE s1
        s3 == IF TypePresent(e.output_tokens)
              THEN ReplaceTokenRecord(s2, e.message_id, "output",
                       e.output_tokens, pr, HandlerOutputPrice(pr))
              ELSE s2
    IN CASE k = 0 -> L
         [] k = 1 -> s1
         [] k = 2 -> s2
         [] OTHER -> s3

\* db.rollback(): the session's writes are discarded
RollbackKeepsWrites(before, session) == session

Rollback(before, session) == before

\* What handle_token_metrics leaves in the ledger for event e when no
\* storage step fails (early returns leave it as it is)
HandleLedger(L, e) ==
    IF e.message_id = NoId \/ e.model_id = NoId THEN L
    ELSE IF FindMessage(L, e.message_id) = {} THEN L
    ELSE TxnAfter(L, e, 3)

----------------------------------------------------------------------------
\* Thread metrics

\* .filter(is_current).order_by(desc(effective_from)).first()
LatestPricing(pricing) ==
    LET rows == {p \in pricing : p.is_current}
        top == {p \in rows : \A q \in rows : q.effective_from <= p.effective_from}
    IN IF rows = {} THEN {}
       ELSE {CHOOSE p \in top : \A q \in top : p.pricing_id <= q.pricing_id}

MetricsInputPrice(pricing) ==
    LET pr == LatestPricing(pricing)
    IN IF pr = {} THEN DEFAULT_INPUT_TOKEN_PRICE
       ELSE (CHOOSE p \in pr : TRUE).input_token_price

MetricsOutputPrice(pricing) ==
    LET pr == LatestPricing(pricing)
    IN IF pr = {} THEN DEFAULT_OUTPUT_TOKEN_PRICE
       ELSE (CHOOSE p \in pr : TRUE).output_token_price

ThreadMessageIds(L, t) == {m \in DOMAIN L.messages : L.messages[m].thread_id = t}

\* func.sum(MessageToken.token_count) of one type, joined to the thread
TokenTotal(L, t, type) ==
    SumTokenCount({r \in L.message_tokens :
                      r.message_id \in ThreadMessageIds(L, t) /\ r.token_type = type})

\* func.sum(UserThreadMessage.token_count) of one role, token_count not NULL
RoleTokenTotal(L, t, role) ==
    SumTokenCount({[message_id |-> m, token_count |-> L.messages[m].token_count] :
                      m \in {x \in ThreadMessageIds(L, t) :
                                L.messages[x].role = role
                                /\ L.messages[x].token_count # NULL}})

\* func.max(created_at) of the thread's messages, else the thread's own
LastActivity(L, t) ==
    IF ThreadMessageIds(L, t) = {} THEN ThreadRow[t].created_at
    ELSE SetMax({L.messages[m].created_at : m \in ThreadMessageIds(L, t)})

\* a metrics record whose cost leaves the output tokens out
MetricsRecordInputCostOnly(L, t, inp, out, pricing) ==
    [thread_id |-> t,
     total_messages |-> Cardinality(ThreadMessageIds(L, t)),
     total_input_tokens |-> inp,
     total_output_tokens |-> out,
     total_cost |-> LineAmount(inp, MetricsInputPrice(pricing)),
     last_activity |-> LastActivity(L, t)]

\* lines 272-288 of billing.py, 268-281 of message_processor.py
MetricsRecord(L, t, inp, out, pricing) ==
    [thread_id |-> t,
     total_messages |-> Cardinality(ThreadMessageIds(L, t)),
     total_input_tokens |-> inp,
     total_output_tokens |-> out,
     total_cost |-> ThreadCost(inp, MetricsInputPrice(pricing),
                               out, MetricsOutputPrice(pricing)),
     last_activity |-> LastActivity(L, t)]

\* get_thread_billing_metrics on a miss: token records only
ApiThreadMetrics(L, t, pricing) ==
    MetricsRecord(L, t, TokenTotal(L, t, "input"), TokenTotal(L, t, "output"),
                  pricing)

\* update_thread_metrics_cache: token records, and the messages' own
\* token_count when both totals are zero
ProcThreadMetrics(L, t, pricing) ==
    LET inp == TokenTotal(L, t, "input")
        out == TokenTotal(L, t, "output")
    IN IF inp = 0 /\ out = 0
       THEN MetricsRecord(L, t, RoleTokenTotal(L, t, "user"),
                          RoleTokenTotal(L, t, "assistant"), pricing)
       ELSE MetricsRecord(L, t, inp, out, pricing)

\* A cached value: the metrics and, as a ghost, the commit count of the
\* ledger they were computed from
CacheEntry(m) == [metrics |-> m, epoch |-> commits]

----------------------------------------------------------------------------
IdleProc == [pc |-> "idle", event |-> NoEvent, thread_id |-> 0, user_id |-> 0,
             entry |-> {}, commit_epoch |-> 0]

IdleReader == [pc |-> "idle", thread_id |-> 0, refresh |-> FALSE,
               kind |-> "none", metrics |-> {}]

\* a finished request: what it returns to the client
Response(t, refresh, kind, ms) ==
    [pc |-> "done", thread_id |-> t, refresh |-> refresh, kind |-> kind,
     metrics |-> ms]

\* no user metrics request has been made
IdleUReader == [pc |-> "idle", user_id |-> 0, kind |-> "none", metrics |-> <<>>]

InitUserEndpoint ==
    /\ ureader = IdleUReader
    /\ user_cache_tasks = {}
    /\ ureads = 0

\* the generate-invoice requests, none of them made yet
InvSlots == 1..MaxInvoiceRequests

IdleInvReq == [pc |-> "idle", thread_id |-> 0, kind |-> "none", invoice_id |-> 0]

InitNoInvoices ==
    /\ invoices = {}
    /\ inv_reqs = [r \in InvSlots |-> IdleInvReq]
    /\ line_item_tasks = {}

\* the dim_event_types rows init_db lists (lines 82-109), in the order of
\* their ids
SeededEventTypes ==
    {[event_type_id |-> 1, event_name |-> "image_generation"],
     [event_type_id |-> 2, event_name |-> "image_analysis"],
     [event_type_id |-> 3, event_name |-> "audio_transcription"]}

\* the dim_resource_pricing rows init_db lists (lines 113-142), prices in
\* units of 1e-8 dollars: image analysis by claude-3-5-haiku (the first
\* model; under that name model_map has no id, see InitDb) and by model 2,
\* image generation by model 2, audio transcription by model 3
SeededResourcePricing ==
    {[resource_pricing_id |-> 1, model_id |-> 1, event_type_id |-> 2,
      unit_price |-> 1000, is_current |-> TRUE],
     [resource_pricing_id |-> 2, model_id |-> 2, event_type_id |-> 2,
      unit_price |-> 2000, is_current |-> TRUE],
     [resource_pricing_id |-> 3, model_id |-> 2, event_type_id |-> 1,
      unit_price |-> 2000000, is_current |-> TRUE],
     [resource_pricing_id |-> 4, model_id |-> 3, event_type_id |-> 3,
      unit_price |-> 10000, is_current |-> TRUE]}

\* dim_event_types and dim_resource_pricing hold no row
NoResourceRows == event_types = {} /\ resource_pricing = {}

\* the inference consumer task between two messages
IdleResProc == [pc |-> "idle", user_id |-> 0]

\* create_message has returned: no request of the turn is under way
NoTurn == [pc |-> "returned", input_tokens |-> 0, output_tokens |-> 0]

\* no streamed turn: the texts of the turn's two messages are stored
NoChat == [entry |-> "none", pc |-> "done", text |-> <<>>, full_response |-> <<>>,
           full_content |-> <<>>, output_tokens |-> 0, outcome |-> "done"]

InitNoChat ==
    /\ chat = NoChat
    /\ contents = [m \in {1, 2} |-> <<"w">>]

MsgStreams == {"raw_messages", "llm_responses"}

IdleMsgProc == [pc |-> "idle", data |-> <<>>, cached |-> <<>>, read_ok |-> TRUE]

\* Nothing cached under thread_messages or message_tokens, the two
\* consumer tasks between two payloads
InitNoStreamMessages ==
    /\ thread_messages = [t \in Threads |-> <<>>]
    /\ message_tokens_cache = [m \in {1, 2} |-> NULL]
    /\ msg_procs = [s \in MsgStreams |-> IdleMsgProc]

\* create_message lines 156-164 (create_message_stream lines 305-313): the
\* payload of the user message in thread t; it has no token_usage
RawMessagePayload(t) ==
    [message_id |-> 1, thread_id |-> t, token_usage |-> Absent]

\* create_message lines 194-203 (create_message_stream lines 376-385): the
\* payload of the assistant message, with the LLM's token_usage
LlmResponsePayload(t, n) ==
    [message_id |-> 2, thread_id |-> t, token_usage |-> n]

\* _publish_message (kafka_service.py lines 74-107): the payload is on the
\* topic when the send succeeded; a producer that cannot start or a send
\* that fails is logged and the caller goes on
Sent(topic, d, sent) == IF sent THEN Append(topic, d) ELSE topic

\* both payloads of the turn are on their topics
TurnDelivered == \A s \in MsgStreams : stream_topics[s] # <<>>

\* the two topics when raw and llm have been published on them
InitTopics(raw, llm) ==
    /\ stream_topics = [s \in MsgStreams |->
                           IF s = "raw_messages" THEN raw ELSE llm]
    /\ msg_published = Len(raw) + Len(llm)

\* create_message lines 117-138 answers 404 unless the thread, the user
\* and the model exist: a database that holds messages holds its users
\* and models
InitDimensions ==
    /\ dim_models = (IF DOMAIN messages = {} THEN {} ELSE Models)
    /\ dim_users = (IF DOMAIN messages = {} THEN {} ELSE Users)
    /\ startups = 0

\* No resource event yet.  init_db commits no row (InitDb): the event
\* types and resource prices are none, or the listed rows stored by other
\* means, whatever the token prices are
InitNoResourceEvents ==
    /\ \E listed \in BOOLEAN :
          /\ event_types = (IF listed THEN SeededEventTypes ELSE {})
          /\ resource_pricing = (IF listed THEN SeededResourcePricing ELSE {})
    /\ api_events = {}
    /\ resource_line_items = {}
    /\ inference_topic = <<>>
    /\ res_published = 0
    /\ res_proc = IdleResProc
    /\ res_outcome = "none"
    /\ res_consumed = 0
    /\ fetch_errors = 0
    /\ consumer_errors = 0
    /\ service = "running"
    /\ InitDimensions
    /\ InitNoStreamMessages

\* the turn when create_message has returned: both rows stored with their
\* token counts, both payloads published (each send may have failed), the
\* two process_message_tokens tasks added
InitTurn(maxIn, maxOut) ==
    \E n1 \in 0..maxIn, n2 \in 0..maxOut, raw_sent, llm_sent \in BOOLEAN :
       /\ messages = InitMessages(n1, n2)
       /\ background_tasks = TurnTasks(n1, n2)
       /\ task_pc = "commit"
       /\ turn = NoTurn
       /\ InitTopics(Sent(<<>>, RawMessagePayload(1), raw_sent),
                     Sent(<<>>, LlmResponsePayload(1, n2), llm_sent))

\* the pipeline at rest: no token rows, nothing cached, no event, no
\* request
InitPipeline ==
    /\ message_tokens = {}
    /\ line_items = {}
    /\ commits = 0
    /\ thread_metrics = [t \in Threads |-> {}]
    /\ user_metrics = [u \in Users |-> {}]
    /\ token_metrics_topic = <<>>
    /\ published = 0
    /\ proc = IdleProc
    /\ last_outcome = "none"
    /\ reader = IdleReader
    /\ cache_tasks = {}
    /\ reads = 0
    /\ InitUserEndpoint
    /\ InitNoChat
    /\ InitNoInvoices
    /\ InitNoResourceEvents

\* One chat turn on a database that holds the users and the models, with
\* the seeded prices or with no price row (the default prices apply)
Init ==
    /\ InitTurn(MaxTokens, MaxTokens)
    /\ token_pricing \in {SeededPricing, {}}
    /\ InitPipeline

\* A database nothing has been written to
InitEmptyDatabase ==
    /\ messages = <<>>
    /\ background_tasks = <<>>
    /\ task_pc = "commit"
    /\ turn = NoTurn
    /\ InitTopics(<<>>, <<>>)
    /\ token_pricing = {}
    /\ InitPipeline
    /\ NoResourceRows

SetLedger(L) ==
    /\ messages' = L.messages
    /\ message_tokens' = L.message_tokens
    /\ line_items' = L.line_items
    /\ UNCHANGED token_pricing

reader_vars == <<reader, cache_tasks, reads>>
cache_vars == <<thread_metrics, user_metrics>>

----------------------------------------------------------------------------
\* Producers on the token-metrics topic

\* kafka_service.publish_token_metrics by any producer, and re-delivery
PublishTokenMetrics(e) ==
    /\ published < MaxEvents
    /\ token_metrics_topic' = Append(token_metrics_topic, e)
    /\ published' = published + 1
    /\ UNCHANGED <<ext_vars, ledger_vars, commits, cache_vars, proc, last_outcome,
                   background_tasks, task_pc, turn, reader_vars>>

\* the token rows when the event would go out ahead of db.commit()
RowsNotYetCommitted(toks, m, inp, out) == toks

\* process_message_tokens lines 46-62: one new row per token type with a
\* count > 0; nothing is deleted first
InsertTokenRows(toks, m, inp, out) ==
    LET t1 == IF inp > 0
              THEN toks \cup
                     {[token_id |-> NextTokenId(toks), message_id |-> m,
                       token_type |-> "input", token_count |-> inp]}
              ELSE toks
    IN IF out > 0
       THEN t1 \cup
              {[token_id |-> NextTokenId(t1), message_id |-> m,
                token_type |-> "output", token_count |-> out]}
       ELSE t1

\* process_message_tokens lines 46-64 of the first background task not yet
\* ended: the rows are added and committed.  A storage error leaves the
\* task as an exception, nothing stored and nothing published; the tasks
\* of a response run one after the other and an exception ends the run,
\* so the tasks behind it are not started
CommitMessageTokens ==
    /\ background_tasks # <<>>
    /\ task_pc = "commit"
    /\ \E stored \in BOOLEAN :
          IF stored
          THEN /\ message_tokens' = InsertTokenRows(message_tokens,
                                        Head(background_tasks).message_id,
                                        Head(background_tasks).input_tokens,
                                        Head(background_tasks).output_tokens)
               /\ commits' = commits + 1
               /\ task_pc' = "publish"
               /\ UNCHANGED background_tasks
          ELSE /\ background_tasks' = <<>>
               /\ UNCHANGED <<message_tokens, commits, task_pc>>
    /\ UNCHANGED <<ext_vars, messages, line_items, token_pricing, cache_vars,
                   token_metrics_topic, published, proc, last_outcome, turn,
                   reader_vars>>

\* process_message_tokens lines 66-73: await publish_token_metrics, after
\* the commit.  _publish_message (kafka_service.py lines 74-107) returns
\* False when the producer cannot start or the send fails: the task ends
\* normally and no event is published
PublishMessageTokens ==
    /\ background_tasks # <<>>
    /\ task_pc = "publish"
    /\ \E sent \in BOOLEAN :
          IF sent
          THEN /\ published < MaxEvents
               /\ token_metrics_topic' =
                      Append(token_metrics_topic, Head(background_tasks))
               /\ published' = published + 1
          ELSE UNCHANGED <<token_metrics_topic, published>>
    /\ background_tasks' = Tail(background_tasks)
    /\ task_pc' = "commit"
    /\ UNCHANGED <<ext_vars, ledger_vars, commits, cache_vars, proc, last_outcome,
                   turn, reader_vars>>

\* process_message_tokens(db, message_id, token_usage, model_id), the next
\* background task of the turn: insert and commit, then publish
ProcessMessageTokens ==
    \/ CommitMessageTokens
    \/ PublishMessageTokens

----------------------------------------------------------------------------
\* The token-metrics consumer: _consume_messages awaits the handler of one
\* event before it takes the next

AcceptsIncomplete(e) == FALSE

\* message_processor.py line 81: `if not message_id or not model_id`
Malformed(e) == e.message_id = NoId \/ e.model_id = NoId

\* after db.commit() the handler goes on to the cache steps, for the
\* thread and the user of the message row found
ConsumerNeverWaits(p) == TRUE

\* kafka_consumer_service.py lines 93-108: `async for msg in consumer:
\* ... await handler(msg.value, db)`; the task asks for the next payload
\* only when the handler of the last one has returned
ConsumerReady(p) == p.pc = "idle"

CommittedSkipsInvalidate(e) ==
    LET found == CHOOSE m \in FindMessage(Ledger, e.message_id) : TRUE
    IN [pc |-> "recompute", event |-> e,
        thread_id |-> messages[found].thread_id,
        user_id |-> messages[found].user_id,
        entry |-> {}, commit_epoch |-> commits + 1]

Committed(e) ==
    LET found == CHOOSE m \in FindMessage(Ledger, e.message_id) : TRUE
    IN [pc |-> "invalidate_thread", event |-> e,
        thread_id |-> messages[found].thread_id,
        user_id |-> messages[found].user_id,
        entry |-> {}, commit_epoch |-> commits + 1]

\* handle_token_metrics lines 76-177 and 190-194 for the next event of the
\* topic.  fail < 4: a storage error is raised after that many writes
\* (3: by the commit itself) and the except branch rolls back.
HandleTokenMetrics ==
    /\ ConsumerReady(proc)
    /\ token_metrics_topic # <<>>
    /\ token_metrics_topic' = Tail(token_metrics_topic)
    /\ LET e == Head(token_metrics_topic)
       IN IF Malformed(e)
          THEN /\ last_outcome' = "malformed"
               /\ UNCHANGED <<ledger_vars, commits, proc>>
          ELSE IF FindMessage(Ledger, e.message_id) = {}
          THEN /\ last_outcome' = "not_found"
               /\ UNCHANGED <<ledger_vars, commits, proc>>
          ELSE \E fail \in 0..4 :
                  IF fail < 4
                  THEN /\ SetLedger(Rollback(Ledger, TxnAfter(Ledger, e, fail)))
                       /\ last_outcome' = "rolled_back"
                       /\ UNCHANGED <<commits, proc>>
                  ELSE /\ SetLedger(HandleLedger(Ledger, e))
                       /\ commits' = commits + 1
                       /\ proc' = Committed(e)
                       /\ last_outcome' = "committed"
    /\ UNCHANGED <<ext_vars, cache_vars, published, background_tasks, task_pc, turn, reader_vars>>

\* a cache operation whose failure undoes what the handler has stored
LedgerLostOnCacheError(L, ok) ==
    IF ok THEN L ELSE [L EXCEPT !.message_tokens = {}, !.line_items = {}]

\* redis_service.py lines 96-108, 128-148, 159-164: set_value, get_value and
\* delete_value catch a Redis error and return False or None; the session
\* is not touched and what is committed stays
LedgerAfterCacheOp(L, ok) == L

\* line 181: delete_value('thread_metrics', thread_id); a Redis error is
\* swallowed by delete_value
InvalidateThread ==
    /\ proc.pc = "invalidate_thread"
    /\ \E ok \in BOOLEAN :
          /\ thread_metrics' = IF ok THEN [thread_metrics EXCEPT ![proc.thread_id] = {}]
                               ELSE thread_metrics
          /\ SetLedger(LedgerAfterCacheOp(Ledger, ok))
    /\ proc' = [proc EXCEPT !.pc = "invalidate_user"]
    /\ UNCHANGED <<ext_vars, commits, user_metrics, token_metrics_topic,
                   published, last_outcome, background_tasks, task_pc, turn, reader_vars>>

\* line 182: delete_value('user_metrics', user_id)
InvalidateUser ==
    /\ proc.pc = "invalidate_user"
    /\ \E ok \in BOOLEAN :
          /\ user_metrics' = IF ok THEN [user_metrics EXCEPT ![proc.user_id] = {}]
                             ELSE user_metrics
          /\ SetLedger(LedgerAfterCacheOp(Ledger, ok))
    /\ proc' = [proc EXCEPT !.pc = "sleep"]
    /\ UNCHANGED <<ext_vars, commits, thread_metrics, token_metrics_topic,
                   published, last_outcome, background_tasks, task_pc, turn, reader_vars>>

\* line 186: asyncio.sleep(1)
Settle ==
    /\ proc.pc = "sleep"
    /\ proc' = [proc EXCEPT !.pc = "recompute"]
    /\ UNCHANGED <<ext_vars, ledger_vars, commits, cache_vars, token_metrics_topic,
                   published, last_outcome, background_tasks, task_pc, turn, reader_vars>>

\* update_thread_metrics_cache lines 202-281: the queries
Recompute ==
    /\ proc.pc = "recompute"
    /\ proc' = [proc EXCEPT !.pc = "store",
                   !.entry = {CacheEntry(ProcThreadMetrics(Ledger, proc.thread_id,
                                                           token_pricing))}]
    /\ UNCHANGED <<ext_vars, ledger_vars, commits, cache_vars, token_metrics_topic,
                   published, last_outcome, background_tasks, task_pc, turn, reader_vars>>

\* update_thread_metrics_cache line 290: cache_thread_metrics, then the
\* handler returns
Store ==
    /\ proc.pc = "store"
    /\ \E ok \in BOOLEAN :
          /\ thread_metrics' = IF ok
                               THEN [thread_metrics EXCEPT ![proc.thread_id] = proc.entry]
                               ELSE thread_metrics
          /\ last_outcome' = (IF ok THEN "refreshed" ELSE "not_cached")
          /\ SetLedger(LedgerAfterCacheOp(Ledger, ok))
    /\ proc' = IdleProc
    /\ UNCHANGED <<ext_vars, commits, user_metrics, token_metrics_topic,
                   published, background_tasks, task_pc, turn, reader_vars>>

----------------------------------------------------------------------------
\* GET /metrics/thread/{thread_id}?refresh=...  (get_thread_billing_metrics)

RequestThreads == Threads \cup {MissingThreadId}

\* lines 211-218: 404
ReaderNotFound(t) ==
    /\ reader.pc = "idle"
    /\ reads < MaxReads
    /\ t \notin Threads
    /\ reader' = Response(t, FALSE, "not_found", {})
    /\ reads' = reads + 1
    /\ UNCHANGED <<ext_vars, ledger_vars, commits, cache_vars, token_metrics_topic,
                   published, proc, last_outcome, background_tasks, task_pc, turn, cache_tasks>>

\* lines 222-225: refresh is set; RedisService has no method
\* force_refresh_thread_metrics, so the call raises AttributeError and the
\* request ends with a server error before anything is read or written
ReaderRefresh(t) ==
    /\ reader.pc = "idle"
    /\ reads < MaxReads
    /\ t \in Threads
    /\ reader' = Response(t, TRUE, "error", {})
    /\ reads' = reads + 1
    /\ UNCHANGED <<ext_vars, ledger_vars, commits, cache_vars, token_metrics_topic,
                   published, proc, last_outcome, background_tasks, task_pc, turn, cache_tasks>>

\* redis_service.get_thread_metrics: None on a miss and on a Redis error
CacheGet(cache, t, ok) == IF ok THEN cache[t] ELSE {}

\* lines 227-230: the cache lookup; a hit is returned as it is
ReaderGet(t) ==
    /\ reader.pc = "idle"
    /\ reads < MaxReads
    /\ t \in Threads
    /\ reads' = reads + 1
    /\ \E ok \in BOOLEAN :
          LET cached == CacheGet(thread_metrics, t, ok)
          IN reader' = IF cached # {}
                       THEN Response(t, FALSE, "cached",
                                     {c.metrics : c \in cached})
                       ELSE [IdleReader EXCEPT !.pc = "miss", !.thread_id = t]
    /\ UNCHANGED <<ext_vars, ledger_vars, commits, cache_vars, token_metrics_topic,
                   published, proc, last_outcome, background_tasks, task_pc, turn, cache_tasks>>

\* lines 232-294: recompute from the ledger, hand the cache write to a new
\* task (asyncio.create_task) and return
ReaderCompute ==
    /\ reader.pc = "miss"
    /\ LET m == ApiThreadMetrics(Ledger, reader.thread_id, token_pricing)
       IN /\ cache_tasks' = cache_tasks \cup
                 {[thread_id |-> reader.thread_id, entry |-> CacheEntry(m)]}
          /\ reader' = Response(reader.thread_id, FALSE, "computed", {m})
    /\ UNCHANGED <<ext_vars, ledger_vars, commits, cache_vars, token_metrics_topic,
                   published, proc, last_outcome, background_tasks, task_pc, turn, reads>>

\* the response has been sent
ReaderReturn ==
    /\ reader.pc = "done"
    /\ reader' = IdleReader
    /\ UNCHANGED <<ext_vars, ledger_vars, commits, cache_vars, token_metrics_topic,
                   published, proc, last_outcome, background_tasks, task_pc, turn, cache_tasks, reads>>

\* the task runs redis_service.cache_thread_metrics
CacheTaskRun(task) ==
    /\ task \in cache_tasks
    /\ cache_tasks' = cache_tasks \ {task}
    /\ \E ok \in BOOLEAN :
          thread_metrics' = IF ok
                            THEN [thread_metrics EXCEPT ![task.thread_id] = {task.entry}]
                            ELSE thread_metrics
    /\ UNCHANGED <<ext_vars, ledger_vars, commits, user_metrics, token_metrics_topic,
                   published, proc, last_outcome, background_tasks, task_pc, turn, reader, reads>>

\* the keys the application writes, each with the TTL of its type
\* (redis_service.py lines 40-46 and 104): thread_messages (24 hours),
\* message_tokens, user_metrics and thread_metrics (7 days)
CacheKeys ==
    [type : {"thread_metrics", "thread_messages"}, id : Threads]
        \cup [type : {"user_metrics"}, id : Users]
        \cup [type : {"message_tokens"}, id : {1, 2}]

\* the key holds a value
CacheHolds(k) ==
    IF k.type = "thread_metrics" THEN thread_metrics[k.id] # {}
    ELSE IF k.type = "user_metrics" THEN user_metrics[k.id] # {}
    ELSE IF k.type = "thread_messages" THEN thread_messages[k.id] # <<>>
    ELSE message_tokens_cache[k.id] # NULL

\* the TTL of a key runs out: Redis drops the key
CacheExpire ==
    /\ \E k \in CacheKeys :
          /\ CacheHolds(k)
          /\ thread_metrics' = (IF k.type = "thread_metrics"
                                THEN [thread_metrics EXCEPT ![k.id] = {}]
                                ELSE thread_metrics)
          /\ user_metrics' = (IF k.type = "user_metrics"
                              THEN [user_metrics EXCEPT ![k.id] = {}]
                              ELSE user_metrics)
          /\ thread_messages' = (IF k.type = "thread_messages"
                                 THEN [thread_messages EXCEPT ![k.id] = <<>>]
                                 ELSE thread_messages)
          /\ message_tokens_cache' = (IF k.type = "message_tokens"
                                      THEN [message_tokens_cache EXCEPT ![k.id] = NULL]
                                      ELSE message_tokens_cache)
    /\ UNCHANGED <<ledger_vars, commits, token_metrics_topic, published, proc,
                   last_outcome, background_tasks, task_pc, turn, reader_vars,
                   user_rd_vars, inv_vars, res_vars, service, boot_vars,
                   stream_topics, msg_procs, msg_published, chat_vars>>

----------------------------------------------------------------------------
\* GET /metrics/user/{user_id}  (get_user_billing_metrics)

MissingUserId == 2
RequestUsers == Users \cup {MissingUserId}

\* lines 101-102: the threads of the user
UserThreadIds(u) == {t \in Threads : ThreadRow[t].user_id = u}

\* lines 100-190.  The loop over the threads only counts messages and sums
\* token records; the block from line 136 on stands after the loop, so it
\* sees the values of the last thread only, and all of lines 137-190 is the
\* body of `if input_tokens == 0 and output_tokens == 0`: one entry, for
\* the last thread, is appended when that thread has no token records, and
\* none otherwise.  The cost is not rounded (line 172).
UserMetricsResult(L, u, pricing) ==
    IF UserThreadIds(u) = {} THEN <<>>
    ELSE LET last == SetMax(UserThreadIds(u))
             inp == RoleTokenTotal(L, last, "user")
             out == RoleTokenTotal(L, last, "assistant")
         IN IF TokenTotal(L, last, "input") = 0 /\ TokenTotal(L, last, "output") = 0
            THEN << [thread_id |-> last,
                     total_messages |-> Cardinality(ThreadMessageIds(L, last)),
                     total_input_tokens |-> inp,
                     total_output_tokens |-> out,
                     total_cost |-> inp * MetricsInputPrice(pricing)
                                    + out * MetricsOutputPrice(pricing),
                     last_activity |-> LastActivity(L, last)] >>
            ELSE <<>>

UserResponse(u, kind, ms) ==
    [pc |-> "done", user_id |-> u, kind |-> kind, metrics |-> ms]

\* lines 86-92: 404
UserReaderNotFound(u) ==
    /\ ureader.pc = "idle"
    /\ ureads < MaxUserReads
    /\ u \notin Users
    /\ ureader' = UserResponse(u, "not_found", <<>>)
    /\ ureads' = ureads + 1
    /\ UNCHANGED <<inv_vars, res_vars, svc_vars, ledger_vars, commits, cache_vars, token_metrics_topic,
                   published, proc, last_outcome, background_tasks, task_pc, turn, reader_vars,
                   user_cache_tasks>>

\* lines 94-98: the cache lookup; a hit is returned as it is
UserReaderGet(u) ==
    /\ ureader.pc = "idle"
    /\ ureads < MaxUserReads
    /\ u \in Users
    /\ ureads' = ureads + 1
    /\ \E ok \in BOOLEAN :
          LET cached == CacheGet(user_metrics, u, ok)
          IN ureader' = IF cached # {}
                        THEN UserResponse(u, "cached",
                                          (CHOOSE c \in cached : TRUE).metrics)
                        ELSE [IdleUReader EXCEPT !.pc = "miss", !.user_id = u]
    /\ UNCHANGED <<inv_vars, res_vars, svc_vars, ledger_vars, commits, cache_vars, token_metrics_topic,
                   published, proc, last_outcome, background_tasks, task_pc, turn, reader_vars,
                   user_cache_tasks>>

\* lines 100-198: compute, hand a non-empty result to a new task that
\* stores it, and return
UserReaderCompute ==
    /\ ureader.pc = "miss"
    /\ LET ms == UserMetricsResult(Ledger, ureader.user_id, token_pricing)
       IN /\ user_cache_tasks' =
                IF ms # <<>>
                THEN user_cache_tasks \cup
                       {[user_id |-> ureader.user_id, entry |-> CacheEntry(ms)]}
                ELSE user_cache_tasks
          /\ ureader' = UserResponse(ureader.user_id, "computed", ms)
    /\ UNCHANGED <<inv_vars, res_vars, svc_vars, ledger_vars, commits, cache_vars, token_metrics_topic,
                   published, proc, last_outcome, background_tasks, task_pc, turn, reader_vars,
                   ureads>>

\* the response has been sent
UserReaderReturn ==
    /\ ureader.pc = "done"
    /\ ureader' = IdleUReader
    /\ UNCHANGED <<inv_vars, res_vars, svc_vars, ledger_vars, commits, cache_vars, token_metrics_topic,
                   published, proc, last_outcome, background_tasks, task_pc, turn, reader_vars,
                   user_cache_tasks, ureads>>

\* the task runs redis_service.cache_user_metrics
UserCacheTaskRun(task) ==
    /\ task \in user_cache_tasks
    /\ user_cache_tasks' = user_cache_tasks \ {task}
    /\ \E ok \in BOOLEAN :
          user_metrics' = IF ok
                          THEN [user_metrics EXCEPT ![task.user_id] = {task.entry}]
                          ELSE user_metrics
    /\ UNCHANGED <<inv_vars, res_vars, svc_vars, ledger_vars, commits, thread_metrics, token_metrics_topic,
                   published, proc, last_outcome, background_tasks, task_pc, turn, reader_vars,
                   ureader, ureads>>

\* create_message lines 194-203 for a turn whose two message rows are
\* stored: the LLM response is published with the token usage of the
\* reply.  The send is awaited: other tasks run before the request goes on
PublishLlmResponse ==
    /\ turn.pc = "publish"
    /\ \E sent \in BOOLEAN :
          /\ stream_topics' = [stream_topics EXCEPT !["llm_responses"] =
                 Sent(@, LlmResponsePayload(messages[1].thread_id,
                                            turn.output_tokens), sent)]
          /\ msg_published' = msg_published + (IF sent THEN 1 ELSE 0)
    /\ turn' = [turn EXCEPT !.pc = "commit"]
    /\ UNCHANGED <<user_rd_vars, inv_vars, res_vars, service, boot_vars,
                   thread_messages, message_tokens_cache, msg_procs, chat_vars,
                   ledger_vars, commits, cache_vars, token_metrics_topic,
                   published, proc, last_outcome, background_tasks, task_pc,
                   reader_vars>>

\* create_message lines 205-250: the background tasks are added, the
\* counted tokens are written to the message rows and committed, and the
\* tasks run once the response is returned.  When the commit raises, lines
\* 267-275 roll back and answer HTTPException 500: the counts stay NULL and
\* no task of the request is run
StoreTokenCounts ==
    /\ turn.pc = "commit"
    /\ \E stored \in BOOLEAN :
          IF stored
          THEN /\ messages' =
                     [m \in DOMAIN messages |->
                         [messages[m] EXCEPT
                            !.token_count = IF messages[m].role = "user"
                                            THEN turn.input_tokens
                                            ELSE turn.output_tokens]]
               /\ background_tasks' =
                     TurnTasks(turn.input_tokens, turn.output_tokens)
               /\ commits' = commits + 1
          ELSE UNCHANGED <<messages, background_tasks, commits>>
    /\ turn' = NoTurn
    /\ UNCHANGED <<user_rd_vars, inv_vars, res_vars, service, boot_vars,
                   msg_vars, chat_vars, task_pc,
                   message_tokens, line_items, token_pricing, cache_vars,
                   token_metrics_topic, published, proc, last_outcome, reader_vars>>

----------------------------------------------------------------------------
\* POST /generate-invoice/thread/{thread_id}  (generate_invoice_for_thread)

InvoicesOf(invs, t) == {i \in invs : i.thread_id = t}

\* db.query(UserInvoice).filter(thread_id == t).first()
FirstInvoice(invs, t) ==
    CHOOSE i \in InvoicesOf(invs, t) :
        \A j \in InvoicesOf(invs, t) : i.invoice_id <= j.invoice_id

NextInvoiceId(invs) ==
    IF invs = {} THEN 1 ELSE SetMax({i.invoice_id : i \in invs}) + 1

InvDone(t, kind, id) ==
    [pc |-> "done", thread_id |-> t, kind |-> kind, invoice_id |-> id]

\* a lookup that brings the invoice it found up to the thread's present
\* cost before returning it
ExistingInvoiceRetotalled(invs, t, cost) ==
    {IF i.thread_id = t THEN [i EXCEPT !.total_amount = cost] ELSE i : i \in invs}

\* lines 309-316: the invoice found for the thread is returned as it is
\* stored; nothing is assigned to it and nothing is committed
ExistingInvoiceReturned(invs, t, cost) == invs

\* lines 300-316: 404 for an unknown thread; an invoice found for the
\* thread is returned as it is; otherwise the request goes on to the
\* metrics call
InvoiceLookup(r, t) ==
    /\ inv_reqs[r].pc = "idle"
    /\ invoices' = (IF t \in Threads
                    THEN ExistingInvoiceReturned(invoices, t,
                             ApiThreadMetrics(Ledger, t, token_pricing).total_cost)
                    ELSE invoices)
    /\ inv_reqs' = [inv_reqs EXCEPT ![r] =
          IF t \notin Threads THEN InvDone(t, "not_found", 0)
          ELSE IF InvoicesOf(invoices, t) # {}
          THEN InvDone(t, "existing", FirstInvoice(invoices, t).invoice_id)
          ELSE [IdleInvReq EXCEPT !.pc = "metrics", !.thread_id = t]]
    /\ UNCHANGED <<ledger_vars, commits, cache_vars, token_metrics_topic,
                   published, proc, last_outcome, background_tasks, task_pc, turn, reader_vars,
                   user_rd_vars, svc_vars, res_vars, line_item_tasks>>

\* a metrics call that answers with the thread metrics computed from the
\* ledger
InvoiceMetricsCallWorks(L, t, pricing) ==
    [ok |-> TRUE, metrics |-> {ApiThreadMetrics(L, t, pricing)}]

\* line 319: get_thread_billing_metrics(thread_id, db) passes the session
\* as `refresh` and leaves `db` at its default, the Depends marker, which
\* has no query method (line 212); past that, the truthy `refresh` leads
\* to redis_service.force_refresh_thread_metrics (line 225), which
\* RedisService does not define: AttributeError, no metrics
InvoiceMetricsCall(L, t, pricing) ==
    [ok |-> FALSE, metrics |-> {}]

\* lines 319-344: the metrics call, then the new invoice with the cost as
\* its total, the commit and the background task for the line items; an
\* exception of the metrics call ends the request with a server error
InvoiceCreate(r) ==
    /\ inv_reqs[r].pc = "metrics"
    /\ LET t == inv_reqs[r].thread_id
           res == InvoiceMetricsCall(Ledger, t, token_pricing)
           id == NextInvoiceId(invoices)
       IN IF res.ok
          THEN /\ invoices' = invoices \cup
                     {[invoice_id |-> id, user_id |-> ThreadRow[t].user_id,
                       thread_id |-> t,
                       total_amount |-> (CHOOSE m \in res.metrics : TRUE).total_cost,
                       status |-> "pending"]}
               /\ line_item_tasks' = line_item_tasks \cup
                     {[invoice_id |-> id, thread_id |-> t]}
               /\ commits' = commits + 1
               /\ inv_reqs' = [inv_reqs EXCEPT ![r] = InvDone(t, "created", id)]
          ELSE /\ inv_reqs' = [inv_reqs EXCEPT ![r] = InvDone(t, "error", 0)]
               /\ UNCHANGED <<invoices, line_item_tasks, commits>>
    /\ UNCHANGED <<ledger_vars, cache_vars, token_metrics_topic,
                   published, proc, last_outcome, background_tasks, task_pc, turn, reader_vars,
                   user_rd_vars, svc_vars, res_vars>>

\* generate_invoice_line_items(invoice_id, thread_id, db) is added as a
\* background task at line 335 only, after the metrics call of line 319,
\* which always raises: no request schedules it.  What it would write is
\* a function of the ledger.
\* lines 42-78: the token records of the thread's messages whose message
\* model has a current price row
ReplayedTokens(L, t, pricing) ==
    {tok \in L.message_tokens :
        /\ tok.message_id \in ThreadMessageIds(L, t)
        /\ CurrentPricing(pricing, L.messages[tok.message_id].model_id) # {}}

\* the position of a token record in the order the two loops visit them
ReplayRank(rows, tok) ==
    Cardinality({q \in rows :
        \/ q.message_id < tok.message_id
        \/ (q.message_id = tok.message_id /\ q.token_id < tok.token_id)})

\* lines 64-78: one new line item per token record, amount = count * unit
\* price of the token type, not rounded; the invoice_id is not used and
\* the line items already stored for the token record are not looked at
ReplayLineItems(L, t, pricing) ==
    LET rows == ReplayedTokens(L, t, pricing)
    IN {[line_item_id |-> NextLineItemId(L.line_items) + ReplayRank(rows, tok),
         message_id |-> tok.message_id,
         token_id |-> tok.token_id,
         pricing_id |-> (CHOOSE p \in CurrentPricing(pricing,
                                 L.messages[tok.message_id].model_id) : TRUE).pricing_id,
         amount |-> tok.token_count *
                    (LET pr == CHOOSE p \in CurrentPricing(pricing,
                                      L.messages[tok.message_id].model_id) : TRUE
                     IN IF tok.token_type = "input" THEN pr.input_token_price
                        ELSE pr.output_token_price)] : tok \in rows}

----------------------------------------------------------------------------
\* The inference-events topic, its consumer loop and handle_inference_events

\* The payloads a producer can put on the topic: JSON objects with the
\* handler's fields for three event types of model 1 (one of them with a
\* listed price, one that no list names; quantity possibly missing), for
\* model 2, without a user_id, and a JSON value that is not an object
ResourceEvents ==
    [kind : {"object"}, user_id : {1}, message_id : {1},
     event_type : {"image_analysis", "image_generation", "video"},
     model_id : {1}, quantity : {Absent} \cup (1..MaxQuantity)]
    \cup
    [kind : {"object"}, user_id : {1, NoId}, message_id : {1},
     event_type : {"image_analysis"}, model_id : {1, 2}, quantity : {1}]
    \cup
    {[kind |-> "array", user_id |-> NoId, message_id |-> NoId,
      event_type |-> "", model_id |-> NoId, quantity |-> Absent]}

\* data.get('quantity', 0)
QuantityOf(e) == IF e.quantity = Absent THEN 0 ELSE e.quantity

\* lines 318-320: not user_id or not event_type_name or not model_id
ResMalformed(e) == e.user_id = NoId \/ e.event_type = "" \/ e.model_id = NoId

\* the three resource tables as one value
ResourceStore ==
    [event_types |-> event_types, api_events |-> api_events,
     resource_line_items |-> resource_line_items]

SetResourceStore(D) ==
    /\ event_types' = D.event_types
    /\ api_events' = D.api_events
    /\ resource_line_items' = D.resource_line_items

NextEventTypeId(D) ==
    IF D.event_types = {} THEN 1
    ELSE SetMax({t.event_type_id : t \in D.event_types}) + 1

NextEventId(D) ==
    IF D.api_events = {} THEN 1
    ELSE SetMax({a.event_id : a \in D.api_events}) + 1

NextResourceLineItemId(D) ==
    IF D.resource_line_items = {} THEN 1
    ELSE SetMax({l.resource_line_item_id : l \in D.resource_line_items}) + 1

\* lines 323-336: the event type row of that name, created when missing
EventTypeId(D, name) ==
    IF \E t \in D.event_types : t.event_name = name
    THEN (CHOOSE t \in D.event_types : t.event_name = name).event_type_id
    ELSE NextEventTypeId(D)

\* a price lookup that does not look at the event type
ResourcePricingOfModel(pricing, model, type) ==
    {p \in pricing : p.model_id = model /\ p.is_current}

\* lines 350-354: the current price rows of the model and event type
CurrentResourcePricing(pricing, model, type) ==
    {p \in pricing : p.model_id = model /\ p.event_type_id = type /\ p.is_current}

\* the session's view after k of the handler's writes: the event type row
\* (when missing), the ApiEvent, the line item (when a price is found)
ResTxnAfter(D, e, k) ==
    LET type == EventTypeId(D, e.event_type)
        s1 == [D EXCEPT !.event_types = @ \cup
                  {[event_type_id |-> type, event_name |-> e.event_type]}]
        ev == NextEventId(D)
        s2 == [s1 EXCEPT !.api_events = @ \cup
                  {[event_id |-> ev, message_id |-> e.message_id,
                    user_id |-> e.user_id, event_type_id |-> type,
                    model_id |-> e.model_id, quantity |-> QuantityOf(e)]}]
        pr == CurrentResourcePricing(resource_pricing, e.model_id, type)
        s3 == IF pr = {} THEN s2
              ELSE [s2 EXCEPT !.resource_line_items = @ \cup
                      {[resource_line_item_id |-> NextResourceLineItemId(D),
                        event_id |-> ev, user_id |-> e.user_id,
                        resource_pricing_id |->
                            (CHOOSE p \in pr : TRUE).resource_pricing_id,
                        quantity |-> QuantityOf(e),
                        amount |-> QuantityOf(e) * (CHOOSE p \in pr : TRUE).unit_price]}]
    IN CASE k = 0 -> D
         [] k = 1 -> s1
         [] k = 2 -> s2
         [] OTHER -> s3

\* a rollback that leaves the flushed rows in the tables
ResRollbackKeepsWrites(before, session) == session

\* line 376: db.rollback()
ResRollback(before, session) == before

\* a consumer task that ends when an exception reaches it
ConsumerStops == [pc |-> "stopped", user_id |-> 0]

\* kafka_consumer_service.py lines 114-115: the exception is logged and the
\* `async for` goes on to the next message
AfterConsumerError == IdleResProc

PublishInference(e) ==
    /\ res_published < MaxResourceEvents
    /\ inference_topic' = Append(inference_topic, e)
    /\ res_published' = res_published + 1
    /\ UNCHANGED <<ledger_vars, commits, cache_vars, token_metrics_topic,
                   published, proc, last_outcome, background_tasks, task_pc, turn, reader_vars,
                   user_rd_vars, svc_vars, inv_vars, event_types, api_events,
                   resource_line_items, resource_pricing, res_proc, res_outcome,
                   res_consumed, fetch_errors, consumer_errors>>

\* _consume_messages lines 93-115 with handle_inference_events lines
\* 300-379 for the next message of the topic.  A payload that is not an
\* object fails at msg.value.get (line 102).  fail < 4: a storage error
\* is raised after that many writes (3: by the commit itself) and the
\* handler rolls back; when the rollback fails too, the exception leaves
\* the handler and nothing of the session is committed.
ConsumeInference ==
    /\ ConsumerReady(res_proc)
    /\ inference_topic # <<>>
    /\ inference_topic' = Tail(inference_topic)
    /\ res_consumed' = res_consumed + 1
    /\ LET e == Head(inference_topic)
       IN IF e.kind # "object"
          THEN /\ res_outcome' = "read_error"
               /\ res_proc' = AfterConsumerError
               /\ consumer_errors' = consumer_errors + 1
               /\ UNCHANGED <<event_types, api_events, resource_line_items>>
          ELSE IF ResMalformed(e)
          THEN /\ res_outcome' = "dropped"
               /\ UNCHANGED <<event_types, api_events, resource_line_items,
                              res_proc, consumer_errors>>
          ELSE \E fail \in 0..4, rolled \in BOOLEAN :
                  IF fail < 4 /\ rolled
                  THEN /\ SetResourceStore(ResRollback(ResourceStore,
                                ResTxnAfter(ResourceStore, e, fail)))
                       /\ res_outcome' = "rolled_back"
                       /\ UNCHANGED <<res_proc, consumer_errors>>
                  ELSE IF fail < 4
                  THEN /\ res_outcome' = "raised"
                       /\ res_proc' = AfterConsumerError
                       /\ consumer_errors' = consumer_errors + 1
                       /\ UNCHANGED <<event_types, api_events, resource_line_items>>
                  ELSE /\ SetResourceStore(ResTxnAfter(ResourceStore, e, 3))
                       /\ res_outcome' = "committed"
                       /\ res_proc' = [pc |-> "invalidate_user", user_id |-> e.user_id]
                       /\ UNCHANGED consumer_errors
    /\ UNCHANGED <<ledger_vars, commits, cache_vars, token_metrics_topic,
                   published, proc, last_outcome, background_tasks, task_pc, turn, reader_vars,
                   user_rd_vars, svc_vars, inv_vars, resource_pricing, res_published,
                   fetch_errors>>

\* message_processor.py line 372: delete_value('user_metrics', user_id); a
\* Redis error is swallowed by delete_value
ResInvalidateUser ==
    /\ res_proc.pc = "invalidate_user"
    /\ \E ok \in BOOLEAN :
          user_metrics' = IF ok /\ res_proc.user_id \in Users
                          THEN [user_metrics EXCEPT ![res_proc.user_id] = {}]
                          ELSE user_metrics
    /\ res_proc' = IdleResProc
    /\ UNCHANGED <<ledger_vars, commits, thread_metrics, token_metrics_topic,
                   published, proc, last_outcome, background_tasks, task_pc, turn, reader_vars,
                   user_rd_vars, svc_vars, inv_vars, event_types, api_events,
                   resource_line_items, resource_pricing, inference_topic,
                   res_published, res_outcome, res_consumed, fetch_errors,
                   consumer_errors>>

\* kafka_consumer_service.py lines 117-121: the fetch of `async for` fails;
\* the error is logged and the task sleeps
ConsumerFetchError ==
    /\ res_proc.pc = "idle"
    /\ fetch_errors < MaxFetchErrors
    /\ fetch_errors' = fetch_errors + 1
    /\ res_proc' = [pc |-> "backoff", user_id |-> 0]
    /\ UNCHANGED <<ledger_vars, commits, cache_vars, token_metrics_topic,
                   published, proc, last_outcome, background_tasks, task_pc, turn, reader_vars,
                   user_rd_vars, svc_vars, inv_vars, event_types, api_events,
                   resource_line_items, resource_pricing, inference_topic,
                   res_published, res_outcome, res_consumed, consumer_errors>>

\* lines 90-93: after the sleep the while loop enters `async for` again
ConsumerRetry ==
    /\ res_proc.pc = "backoff"
    /\ res_proc' = IdleResProc
    /\ UNCHANGED <<ledger_vars, commits, cache_vars, token_metrics_topic,
                   published, proc, last_outcome, background_tasks, task_pc, turn, reader_vars,
                   user_rd_vars, svc_vars, inv_vars, event_types, api_events,
                   resource_line_items, resource_pricing, inference_topic,
                   res_published, res_outcome, res_consumed, fetch_errors,
                   consumer_errors>>

----------------------------------------------------------------------------
\* setup_database: init_db at every start of the application

\* the dimension tables init_db reads and writes
Dimensions ==
    [dim_models |-> dim_models, token_pricing |-> token_pricing,
     event_types |-> event_types, resource_pricing |-> resource_pricing,
     dim_users |-> dim_users]

NextPricingId(pricing) ==
    IF pricing = {} THEN 1 ELSE SetMax({p.pricing_id : p \in pricing}) + 1

\* init_db lines 24-48: the three models, in the order of their ids
SeedModels == {1, 2, 3}

\* init_db lines 52-74: the token prices of claude-3-5-haiku-20241022,
\* claude-3-opus and claude-3-sonnet in units of 1e-8 dollars
SeedTokenPrices ==
    <<[input_token_price |-> 25, output_token_price |-> 75],
      [input_token_price |-> 150, output_token_price |-> 750],
      [input_token_price |-> 75, output_token_price |-> 350]>>

\* init_db lines 22-109: the session when line 115 is reached: the models,
\* one current token price for each and the event types have been added
InitDbSession(D) ==
    [D EXCEPT !.dim_models = @ \cup SeedModels,
              !.token_pricing = @ \cup
                 {[pricing_id |-> NextPricingId(D.token_pricing) + m - 1,
                   model_id |-> m,
                   input_token_price |-> SeedTokenPrices[m].input_token_price,
                   output_token_price |-> SeedTokenPrices[m].output_token_price,
                   effective_from |-> 1, is_current |-> TRUE] : m \in SeedModels},
              !.event_types = @ \cup
                 {[event_type_id |-> NextEventTypeId(D) + t.event_type_id - 1,
                   event_name |-> t.event_name] : t \in SeededEventTypes}]

\* init_db lines 17-20: nothing is done when dim_models has rows.  On an
\* empty database line 115 looks up model_map["claude-3-5-haiku"], a name
\* the models list of lines 24-40 does not have: KeyError, and lines
\* 160-162 roll the session back
InitDb(D) ==
    IF D.dim_models # {} THEN D ELSE Rollback(D, InitDbSession(D))

\* the scalar subquery of add_token_count_column lines 41-47 and 60-66:
\* the message's token rows of the type of its role (SQLite takes the
\* first row of the table that matches)
TokenRowsOfRole(toks, m, role) ==
    {r \in toks :
        /\ r.message_id = m
        /\ r.token_type = (IF role = "user" THEN "input" ELSE "output")}

\* add_token_count_column lines 39-74: a user message whose token_count is
\* NULL gets the count of its input token row, an assistant message that
\* of its output row; a message without such a row keeps NULL
AddTokenCountColumn(msgs, toks) ==
    [m \in DOMAIN msgs |->
        LET rows == TokenRowsOfRole(toks, m, msgs[m].role)
        IN IF /\ msgs[m].role \in {"user", "assistant"}
              /\ msgs[m].token_count = NULL
              /\ rows # {}
           THEN [msgs[m] EXCEPT !.token_count =
                    (CHOOSE r \in rows :
                        \A q \in rows : r.token_id <= q.token_id).token_count]
           ELSE msgs[m]]

\* main.py line 48: setup_database() at the start of the application:
\* init_db (line 23), then add_token_count_column (line 29), which commits
\* its updates (line 77) or rolls them back on a storage error (lines
\* 80-82).  update_model_names (line 26) renames models and changes no id
SetupDatabase ==
    /\ startups < MaxStartups
    /\ startups' = startups + 1
    /\ LET D == InitDb(Dimensions)
       IN /\ dim_models' = D.dim_models
          /\ token_pricing' = D.token_pricing
          /\ event_types' = D.event_types
          /\ resource_pricing' = D.resource_pricing
          /\ dim_users' = D.dim_users
    /\ \E stored \in BOOLEAN :
          messages' = (IF stored
                       THEN AddTokenCountColumn(messages, message_tokens)
                       ELSE messages)
    /\ commits' = (IF messages' # messages THEN commits + 1 ELSE commits)
    /\ UNCHANGED <<message_tokens, line_items, cache_vars,
                   token_metrics_topic, published, proc, last_outcome,
                   background_tasks, task_pc, turn, reader_vars, user_rd_vars, inv_vars,
                   api_events, resource_line_items, inference_topic,
                   res_published, res_proc, res_outcome, res_consumed,
                   fetch_errors, consumer_errors, service, msg_vars, chat_vars>>

----------------------------------------------------------------------------
\* Shutdown of the message processors (shutdown_message_processors)

\* everything but the life cycle
app_vars == <<ledger_vars, commits, cache_vars, token_metrics_topic, published,
              proc, last_outcome, background_tasks, task_pc, turn, reader_vars, user_rd_vars,
              inv_vars, res_vars, boot_vars, msg_vars, chat_vars>>

\* KafkaConsumerService.close line 62: stop_event.set(); the coroutine then
\* waits in consumer.stop() (line 66)
CloseRequested ==
    /\ service = "running"
    /\ service' = "stopping"
    /\ UNCHANGED app_vars

\* lines 65-69: every consumer.stop() has returned and close() returns; the
\* consume tasks started by create_task (line 54) are not awaited
ConsumersStopped ==
    /\ service = "stopping"
    /\ service' = "consumers_stopped"
    /\ UNCHANGED app_vars

\* redis_service.close (redis_service.py lines 60-64): the client is closed
\* and forgotten
RedisClosed ==
    /\ service = "consumers_stopped"
    /\ service' = "redis_closed"
    /\ UNCHANGED app_vars

\* shutdown_event has returned and the event loop ends: a task that is
\* still waiting is cancelled at its await
LoopStops ==
    /\ service = "redis_closed"
    /\ service' = "loop_stopped"
    /\ UNCHANGED app_vars

ConsumerIgnoresStop(svc) == TRUE

\* kafka_consumer_service.py lines 89 and 94: `while not
\* self.stop_event.is_set()`, `if self.stop_event.is_set(): break`
ConsumerMayTake(svc) == svc = "running"

\* kafka_consumer_service.py lines 89-95: the loop takes a message only
\* while stop_event is not set
TakeWhileRunning ==
    /\ ConsumerMayTake(service)
    /\ HandleTokenMetrics

\* a handler that is past its commit goes on at its next await for as long
\* as the event loop runs; after redis_service.close a cache operation
\* opens a new client (redis_service.py lines 152-153)
HandlerGoesOn ==
    /\ service # "loop_stopped"
    /\ \/ InvalidateThread
       \/ InvalidateUser
       \/ Settle
       \/ Recompute
       \/ Store

----------------------------------------------------------------------------
\* The deployed system: the API is the only producer on the topic
Next ==
    \/ ProcessMessageTokens
    \/ HandleTokenMetrics
    \/ InvalidateThread
    \/ InvalidateUser
    \/ Settle
    \/ Recompute
    \/ Store
    \/ \E t \in RequestThreads : ReaderNotFound(t)
    \/ \E t \in RequestThreads : ReaderRefresh(t)
    \/ \E t \in RequestThreads : ReaderGet(t)
    \/ ReaderCompute
    \/ ReaderReturn
    \/ \E task \in cache_tasks : CacheTaskRun(task)
    \/ CacheExpire

\* the resource tables take no part here: they hold no row
InitLedger == Init /\ NoResourceRows

Spec == InitLedger /\ [][Next]_vars

\* The billing processor on an open topic: any payload may arrive, any
\* number of times
NextBus ==
    \/ \E e \in Events : PublishTokenMetrics(e)
    \/ ProcessMessageTokens
    \/ HandleTokenMetrics
    \/ InvalidateThread
    \/ InvalidateUser
    \/ Settle
    \/ Recompute
    \/ Store
    \/ CacheExpire

\* raw_messages and llm_responses have no consumer here: the turn is one
\* whose two payloads were delivered
InitBus == InitLedger /\ TurnDelivered

SpecBus == InitBus /\ [][NextBus]_vars

\* the two message rows of a chat turn in thread t
MessagesInThread(t, n1, n2) ==
    [m \in DOMAIN InitMessages(n1, n2) |->
        [InitMessages(n1, n2)[m] EXCEPT !.thread_id = t]]

\* A chat turn in one of the user's threads, from the moment both message
\* rows are stored (create_message line 189) and the user message has been
\* delivered to raw_messages, with the processor and the user metrics
\* endpoint; the request holds the counted tokens of both messages
InitUser ==
    /\ \E t \in Threads :
          /\ messages = MessagesInThread(t, NULL, NULL)
          /\ InitTopics(<<RawMessagePayload(t)>>, <<>>)
    /\ background_tasks = <<>>
    /\ task_pc = "commit"
    /\ \E n1, n2 \in 0..MaxTokens :
          turn = [NoTurn EXCEPT !.pc = "publish", !.input_tokens = n1,
                                !.output_tokens = n2]
    /\ message_tokens = {}
    /\ line_items = {}
    /\ token_pricing \in {SeededPricing, {}}
    /\ commits = 0
    /\ thread_metrics = [t \in Threads |-> {}]
    /\ user_metrics = [u \in Users |-> {}]
    /\ token_metrics_topic = <<>>
    /\ published = 0
    /\ proc = IdleProc
    /\ last_outcome = "none"
    /\ reader = IdleReader
    /\ cache_tasks = {}
    /\ reads = 0
    /\ InitUserEndpoint
    /\ InitNoChat
    /\ InitNoInvoices
    /\ InitNoResourceEvents
    /\ NoResourceRows

NextUser ==
    \/ PublishLlmResponse
    \/ StoreTokenCounts
    \/ ProcessMessageTokens
    \/ HandleTokenMetrics
    \/ InvalidateThread
    \/ InvalidateUser
    \/ Settle
    \/ Recompute
    \/ Store
    \/ \E u \in RequestUsers : UserReaderNotFound(u)
    \/ \E u \in RequestUsers : UserReaderGet(u)
    \/ UserReaderCompute
    \/ UserReaderReturn
    \/ \E task \in user_cache_tasks : UserCacheTaskRun(task)
    \/ CacheExpire

SpecUser == InitUser /\ [][NextUser]_vars

\* A user_invoices row the database holds for the turn's thread
PendingInvoice ==
    [invoice_id |-> 1, user_id |-> ThreadRow[1].user_id, thread_id |-> 1,
     total_amount |-> 0, status |-> "pending"]

\* The chat-turn pipeline with invoice generation, for a turn whose two
\* payloads were delivered: the database holds no invoice, or one for the
\* turn's thread; no background task is pending
InitInvoice ==
    /\ InitTurn(MaxTokens, MaxTokens)
    /\ TurnDelivered
    /\ message_tokens = {}
    /\ line_items = {}
    /\ token_pricing \in {SeededPricing, {}}
    /\ commits = 0
    /\ thread_metrics = [t \in Threads |-> {}]
    /\ user_metrics = [u \in Users |-> {}]
    /\ token_metrics_topic = <<>>
    /\ published = 0
    /\ proc = IdleProc
    /\ last_outcome = "none"
    /\ reader = IdleReader
    /\ cache_tasks = {}
    /\ reads = 0
    /\ InitUserEndpoint
    /\ InitNoChat
    /\ InitNoResourceEvents
    /\ NoResourceRows
    /\ inv_reqs = [r \in InvSlots |-> IdleInvReq]
    /\ invoices \in {{}, {PendingInvoice}}
    /\ line_item_tasks = {}

NextInvoice ==
    \/ ProcessMessageTokens
    \/ HandleTokenMetrics
    \/ InvalidateThread
    \/ InvalidateUser
    \/ Settle
    \/ Recompute
    \/ Store
    \/ \E r \in InvSlots, t \in RequestThreads : InvoiceLookup(r, t)
    \/ \E r \in InvSlots : InvoiceCreate(r)
    \/ CacheExpire

SpecInvoice == InitInvoice /\ [][NextInvoice]_vars

\* The chat-turn pipeline of an application that is started again and
\* again on the same database
NextPricing ==
    \/ SetupDatabase
    \/ ProcessMessageTokens
    \/ HandleTokenMetrics
    \/ InvalidateThread
    \/ InvalidateUser
    \/ Settle
    \/ Recompute
    \/ Store
    \/ CacheExpire

\* the application starts on an empty database or on one in use
InitPricing == Init \/ InitEmptyDatabase

SpecPricing == InitPricing /\ [][NextPricing]_vars

\* The chat-turn pipeline with a shutdown of the message processors at any
\* moment
NextShutdown ==
    \/ ProcessMessageTokens
    \/ TakeWhileRunning
    \/ HandlerGoesOn
    \/ CloseRequested
    \/ ConsumersStopped
    \/ RedisClosed
    \/ LoopStops
    \/ CacheExpire

SpecShutdown == InitLedger /\ [][NextShutdown]_vars

\* The payloads of the inference topic when both streams run: image
\* analysis events of quantity 1, of either model, with and without a user,
\* and a payload that is not an object
StreamResourceEvents ==
    {e \in ResourceEvents :
        e.kind = "object" => (e.event_type = "image_analysis" /\ e.quantity = 1)}

\* The token-metrics stream of a chat turn and the inference-events stream
\* side by side, each with its own consumer task
NextStreams ==
    \/ ProcessMessageTokens
    \/ HandleTokenMetrics
    \/ InvalidateThread
    \/ InvalidateUser
    \/ Settle
    \/ Recompute
    \/ Store
    \/ \E e \in StreamResourceEvents : PublishInference(e)
    \/ ConsumeInference
    \/ ResInvalidateUser
    \/ ConsumerFetchError
    \/ ConsumerRetry
    \/ CacheExpire

\* the turn's two payloads were delivered
InitBothStreams == Init /\ TurnDelivered

SpecStreams == InitBothStreams /\ [][NextStreams]_vars

\* The inference-events stream: any producer, the consumer task and the
\* resource handler
NextResource ==
    \/ \E e \in ResourceEvents : PublishInference(e)
    \/ ConsumeInference
    \/ ResInvalidateUser
    \/ ConsumerFetchError
    \/ ConsumerRetry

\* The chat pipeline takes no step here: its tables are those of a
\* deployment after a turn without counted tokens
InitResource ==
    /\ Init
    /\ messages = InitMessages(0, 0)

SpecResource == InitResource /\ [][NextResource]_vars

\* The consumer task is an asyncio task started with the application
\* (initialize_consumers): it runs whenever it has a step to take
SpecResourceFair ==
    /\ SpecResource
    /\ WF_vars(ConsumeInference)
    /\ WF_vars(ResInvalidateUser)
    /\ WF_vars(ConsumerRetry)

----------------------------------------------------------------------------
\* Properties of the billing processor (checked under SpecBus)

\* the step is one run of handle_token_metrics on the head of the topic
HandlerStep == Len(token_metrics_topic') < Len(token_metrics_topic)

HandledEvent == Head(token_metrics_topic)

\* the step is a run of handle_token_metrics that committed
HandlerCommits == HandlerStep /\ last_outcome' = "committed"

TokenRowsOf(L, m) == {t \in L.message_tokens : t.message_id = m}

LineItemsOf(L, m) == {l \in L.line_items : l.message_id = m}

\* the rows of message m in two ledgers are the same up to row ids
SameRowsUpToIds(L1, L2, m) ==
    /\ {<<t.token_type, t.token_count>> : t \in TokenRowsOf(L1, m)}
         = {<<t.token_type, t.token_count>> : t \in TokenRowsOf(L2, m)}
    /\ Cardinality(TokenRowsOf(L1, m)) = Cardinality(TokenRowsOf(L2, m))
    /\ {l.amount : l \in LineItemsOf(L1, m)} = {l.amount : l \in LineItemsOf(L2, m)}
    /\ Cardinality(LineItemsOf(L1, m)) = Cardinality(LineItemsOf(L2, m))
    /\ SumAmount(LineItemsOf(L1, m)) = SumAmount(LineItemsOf(L2, m))

\* C1: whenever handle_token_metrics has committed an event, running it on
\* the same event once more leaves the same token records and the same
\* line items for that message, up to row ids, as the first run left.
C1_ReprocessingIsIdempotent ==
    [][HandlerCommits =>
          SameRowsUpToIds(Ledger', HandleLedger(Ledger', HandledEvent),
                          HandledEvent.message_id)]_vars

\* C2: in every committed ledger state there is at most one token record
\* per (message_id, token_type).
C2_OneTokenRecordPerType ==
    \A t1, t2 \in message_tokens :
        (t1.message_id = t2.message_id /\ t1.token_type = t2.token_type)
            => t1 = t2

\* C3: in every committed ledger state every line item references a token
\* record that still exists (and belongs to the same message).
C3_LineItemsReferenceLiveTokens ==
    \A l \in line_items :
        \E t \in message_tokens :
            t.token_id = l.token_id /\ t.message_id = l.message_id

\* C4: a run of handle_token_metrics in which a storage step fails before
\* the commit leaves the ledger as it was before the event, runs no cache
\* step, and takes the event off the topic without publishing it again.
C4_FailedEventRollsBack ==
    [][(HandlerStep /\ last_outcome' = "rolled_back") =>
          /\ Ledger' = Ledger
          /\ commits' = commits
          /\ token_metrics_topic' = Tail(token_metrics_topic)
          /\ published' = published
          /\ proc'.pc = "idle"
          /\ UNCHANGED cache_vars]_vars

\* C4 witness: an event for a stored message was rolled back
C4_Witness ==
    /\ last_outcome = "rolled_back"
    /\ proc.pc = "idle"
    /\ published > 0

\* C5: an event that names a message_id without a Message row creates no
\* token record and no line item, changes no Message row and no cache
\* entry, ends the handler normally, and leaves the consumer ready for the
\* next event.
C5_UnknownMessageIsDropped ==
    [][(HandlerStep /\ ~Malformed(HandledEvent)
          /\ HandledEvent.message_id \notin DOMAIN messages) =>
          /\ Ledger' = Ledger
          /\ commits' = commits
          /\ UNCHANGED cache_vars
          /\ last_outcome' = "not_found"
          /\ proc'.pc = "idle"]_vars

\* C5 witness: the handler has dropped such an event, the consumer is idle
\* and the next event is waiting
C5_Witness ==
    /\ last_outcome = "not_found"
    /\ proc.pc = "idle"
    /\ token_metrics_topic # <<>>
    /\ message_tokens = {}

\* the token types an event carries with a count > 0
PricedTypes(e) ==
    (IF e.input_tokens > 0 THEN {"input"} ELSE {})
    \cup (IF e.output_tokens > 0 THEN {"output"} ELSE {})

EventCount(e, type) == IF type = "input" THEN e.input_tokens ELSE e.output_tokens

DefaultPrice(type) ==
    IF type = "input" THEN DEFAULT_INPUT_TOKEN_PRICE ELSE DEFAULT_OUTPUT_TOKEN_PRICE

\* C6: when a committed event names a model without a current price row,
\* every token type with a count > 0 gets a token record and a line item
\* with amount = round(count * default unit price, 6).
C6_DefaultPricesAreBilled ==
    [][(HandlerCommits /\ CurrentPricing(token_pricing, HandledEvent.model_id) = {}) =>
          \A type \in PricedTypes(HandledEvent) :
              \E t \in message_tokens' :
                  /\ t.message_id = HandledEvent.message_id
                  /\ t.token_type = type
                  /\ t.token_count = EventCount(HandledEvent, type)
                  /\ \E l \in line_items' :
                        /\ l.token_id = t.token_id
                        /\ l.message_id = t.message_id
                        /\ l.amount = LineAmount(t.token_count, DefaultPrice(type))]_vars

----------------------------------------------------------------------------
\* Properties of the metrics cache and its readers (checked under Spec)

\* the step ends a metrics request with its response
ReaderResponds == reader.pc # "done" /\ reader'.pc = "done"

\* sum(input token counts) * input_price + sum(output token counts) *
\* output_price over the token records of thread t, not rounded
DirectCost(L, t, pricing) ==
    TokenTotal(L, t, "input") * MetricsInputPrice(pricing)
    + TokenTotal(L, t, "output") * MetricsOutputPrice(pricing)

CostMatchesLedger(m, L, t) ==
    Abs(m.total_cost - DirectCost(L, t, token_pricing)) <= Tolerance

\* C7 as stated: every metrics response for an existing thread, served
\* from the cache or recomputed, carries a total_cost within 1e-6 of the
\* cost computed from the thread's token records at the time of the call.
C7_EveryResponseMatchesLedger ==
    [][(ReaderResponds /\ reader'.kind \in {"cached", "computed"}) =>
          \A m \in reader'.metrics :
              CostMatchesLedger(m, Ledger, reader'.thread_id)]_vars

\* C7 amended: a recomputed response carries a total_cost within 1e-6 of
\* the cost computed from the token records at the time of the call; a
\* response served from the cache is the stored entry, returned unchanged
\* whatever the ledger holds by then.
C7_RecomputedResponseMatchesLedger ==
    [][ReaderResponds =>
          /\ reader'.kind = "computed" =>
                /\ reader'.metrics # {}
                /\ \A m \in reader'.metrics :
                      CostMatchesLedger(m, Ledger, reader'.thread_id)
          /\ reader'.kind = "cached" =>
                /\ reader'.metrics # {}
                /\ reader'.metrics
                      = {c.metrics : c \in thread_metrics[reader'.thread_id]}]_vars

\* C7 witness: a request has been answered by recomputing the cost of a
\* thread that has billed output tokens
C7_Witness ==
    /\ reader.pc = "done"
    /\ reader.kind = "computed"
    /\ \E m \in reader.metrics : m.total_output_tokens > 0 /\ m.total_cost > 0

\* C8: a request with refresh set answers with metrics recomputed from the
\* ledger and queues their storage; a request without it answers with the
\* cached entry when it finds one; every recomputed answer equals the cold
\* computation from the ledger and is queued for storage in the cache.
C8_RefreshRecomputesFromLedger ==
    [][ReaderResponds =>
          LET t == reader'.thread_id
              cold == ApiThreadMetrics(Ledger, t, token_pricing)
          IN /\ (t \in Threads /\ reader'.refresh) =>
                   reader'.kind = "computed"
             /\ reader'.kind = "cached" =>
                   reader'.metrics = {c.metrics : c \in thread_metrics[t]}
             /\ reader'.kind = "computed" =>
                   /\ reader'.metrics = {cold}
                   /\ \E task \in cache_tasks' :
                         task.thread_id = t /\ task.entry.metrics = cold]_vars

\* the turn's background tasks have run, all events are handled, no
\* request and no cache write is in flight
Quiescent ==
    /\ background_tasks = <<>>
    /\ token_metrics_topic = <<>>
    /\ proc.pc = "idle"
    /\ reader.pc = "idle"
    /\ cache_tasks = {}

\* the metrics of thread t computed from ledger L by either computation
FinalMetrics(L, t) ==
    {ApiThreadMetrics(L, t, token_pricing), ProcThreadMetrics(L, t, token_pricing)}

\* C9: once all events are handled, the processor's last run has
\* refreshed the cache, and all requests and cache writes have finished, a
\* cached thread_metrics entry equals the metrics of the final ledger.
C9_CacheConvergesToLedger ==
    (Quiescent /\ last_outcome = "refreshed") =>
        \A t \in Threads :
            \A c \in thread_metrics[t] : c.metrics \in FinalMetrics(Ledger, t)

\* the processor moves from one step of handle_token_metrics to the next
ProcMoves == proc'.pc # proc.pc

\* the order of the cache steps: after the commit the thread entry is
\* deleted, then the user entry, then the delay, then the recomputation,
\* then the storage; no cache step runs earlier and none touches the ledger
CacheStepsInOrder ==
    /\ HandlerCommits => (proc'.pc = "invalidate_thread" /\ UNCHANGED cache_vars)
    /\ (HandlerStep /\ ~HandlerCommits) => (proc'.pc = "idle" /\ UNCHANGED cache_vars)
    /\ (ProcMoves /\ proc.pc = "invalidate_thread") =>
          /\ proc'.pc = "invalidate_user"
          /\ thread_metrics'[proc.thread_id] \in {{}, thread_metrics[proc.thread_id]}
          /\ UNCHANGED <<ledger_vars, commits, user_metrics>>
    /\ (ProcMoves /\ proc.pc = "invalidate_user") =>
          /\ proc'.pc = "sleep"
          /\ user_metrics'[proc.user_id] \in {{}, user_metrics[proc.user_id]}
          /\ UNCHANGED <<ledger_vars, commits, thread_metrics>>
    /\ (ProcMoves /\ proc.pc = "sleep") =>
          /\ proc'.pc = "recompute"
          /\ UNCHANGED <<ledger_vars, commits, cache_vars>>
    /\ (ProcMoves /\ proc.pc = "recompute") =>
          /\ proc'.pc = "store"
          /\ proc'.entry
                = {[metrics |-> ProcThreadMetrics(Ledger, proc.thread_id, token_pricing),
                    epoch |-> commits]}
          /\ commits >= proc.commit_epoch
          /\ UNCHANGED <<ledger_vars, commits, cache_vars>>
    /\ (ProcMoves /\ proc.pc = "store") =>
          /\ proc'.pc = "idle"
          /\ thread_metrics'[proc.thread_id] \in {proc.entry, thread_metrics[proc.thread_id]}
          /\ UNCHANGED <<ledger_vars, commits, user_metrics>>

\* C10 as stated: the cache steps run in that order after the commit, and
\* when the handler of a committed event returns, the thread's entry is
\* present and was computed from a ledger that includes that commit.
C10_CacheNeverColdAfterCommit ==
    [][/\ CacheStepsInOrder
       /\ (ProcMoves /\ proc.pc = "store") =>
              /\ thread_metrics'[proc.thread_id] # {}
              /\ \A c \in thread_metrics'[proc.thread_id] :
                    c.epoch >= proc.commit_epoch]_vars

\* C10 amended: the cache steps run in that order after the commit, and
\* when the final cache write succeeds the thread's entry is the one the
\* handler computed from a ledger that includes that commit; when a cache
\* call fails the error is swallowed and the entry may stay deleted or
\* keep its earlier value.
C10_CacheRefreshedWhenStoreSucceeds ==
    [][/\ CacheStepsInOrder
       /\ (ProcMoves /\ proc.pc = "store" /\ last_outcome' = "refreshed") =>
              /\ thread_metrics'[proc.thread_id] = proc.entry
              /\ thread_metrics'[proc.thread_id] # {}
              /\ \A c \in thread_metrics'[proc.thread_id] :
                    /\ c.epoch >= proc.commit_epoch
                    /\ c.metrics.thread_id = proc.thread_id]_vars

\* C10 witness: the handler of a committed event has returned and the
\* thread's entry holds metrics of the ledger that commit produced
C10_Witness ==
    /\ last_outcome = "refreshed"
    /\ proc.pc = "idle"
    /\ message_tokens # {}
    /\ \E c \in thread_metrics[1] :
          c.epoch = commits /\ c.metrics = ProcThreadMetrics(Ledger, 1, token_pricing)

----------------------------------------------------------------------------
\* Properties of the user metrics endpoint (checked under SpecUser)

\* the step ends a user metrics request with its response
UserReaderResponds == ureader.pc # "done" /\ ureader'.pc = "done"

\* the entries of a response, as a set
Entries(ms) == {ms[i] : i \in DOMAIN ms}

\* C11: a user metrics response served from the cache holds, for every
\* thread that has token records, the token totals of those records: the
\* entry was invalidated when the records changed.
C11_UserCacheInvalidatedOnTokenChange ==
    [][(UserReaderResponds /\ ureader'.kind = "cached") =>
          \A e \in Entries(ureader'.metrics) :
              (TokenTotal(Ledger, e.thread_id, "input")
                 + TokenTotal(Ledger, e.thread_id, "output") > 0) =>
                  /\ e.total_input_tokens = TokenTotal(Ledger, e.thread_id, "input")
                  /\ e.total_output_tokens = TokenTotal(Ledger, e.thread_id, "output")]_vars

\* C12: a recomputed user metrics response has exactly one entry for every
\* thread of the user, equal to the thread metrics the thread endpoint
\* computes.
C12_OneEntryPerThread ==
    [][(UserReaderResponds /\ ureader'.kind = "computed") =>
          /\ Len(ureader'.metrics) = Cardinality(UserThreadIds(ureader'.user_id))
          /\ \A t \in UserThreadIds(ureader'.user_id) :
                \E i \in DOMAIN ureader'.metrics :
                    ureader'.metrics[i] = ApiThreadMetrics(Ledger, t, token_pricing)]_vars

----------------------------------------------------------------------------
\* Invoices

\* request r leaves the lookup in this step
InvoiceCallStarts(r) ==
    inv_reqs[r].pc = "idle" /\ inv_reqs'[r].pc # "idle"

\* request r returns in this step
InvoiceCallReturns(r) ==
    inv_reqs[r].pc # "done" /\ inv_reqs'[r].pc = "done"

\* C13: a generate-invoice call made on an existing thread after another
\* call on that thread has returned: the earlier call returned an invoice,
\* the later one returns the same invoice id from the lookup, and the
\* invoice table is the same before and after it.
C13_SecondCallReturnsSameInvoice ==
    [][\A q, r \in InvSlots :
          (/\ q # r
           /\ inv_reqs[q].pc = "done"
           /\ inv_reqs[q].thread_id \in Threads
           /\ InvoiceCallStarts(r)
           /\ inv_reqs'[r].thread_id = inv_reqs[q].thread_id) =>
              /\ inv_reqs[q].kind \in {"created", "existing"}
              /\ inv_reqs'[r].pc = "done"
              /\ inv_reqs'[r].kind = "existing"
              /\ inv_reqs'[r].invoice_id = inv_reqs[q].invoice_id
              /\ invoices' = invoices]_vars

\* C14: no thread ever has two invoices.
C14_AtMostOneInvoicePerThread ==
    \A t \in Threads : Cardinality(InvoicesOf(invoices, t)) <= 1

\* two requests for the same thread are both past the lookup, neither has
\* inserted yet
C14_Witness ==
    \E q, r \in InvSlots :
        /\ q # r
        /\ inv_reqs[q].pc = "metrics"
        /\ inv_reqs[r].pc = "metrics"
        /\ inv_reqs[q].thread_id = inv_reqs[r].thread_id
        /\ InvoicesOf(invoices, inv_reqs[q].thread_id) = {}

\* the total cost a metrics snapshot of thread t can carry: the cached
\* entry's or the one computed from the ledger
SnapshotCosts(t) ==
    {m.metrics.total_cost : m \in thread_metrics[t]}
       \cup {ApiThreadMetrics(Ledger, t, token_pricing).total_cost}

\* C15: a generate-invoice call that found no invoice for its existing
\* thread returns a newly committed invoice: the one new row has status
\* pending, the thread's user and the snapshot total cost.
C15_InvoiceCreatedFromSnapshot ==
    [][\A r \in InvSlots :
          (inv_reqs[r].pc = "metrics" /\ InvoiceCallReturns(r)) =>
              /\ inv_reqs'[r].kind = "created"
              /\ \E i \in invoices' \ invoices :
                    /\ invoices' = invoices \cup {i}
                    /\ i.invoice_id = inv_reqs'[r].invoice_id
                    /\ i.thread_id = inv_reqs[r].thread_id
                    /\ i.user_id = ThreadRow[inv_reqs[r].thread_id].user_id
                    /\ i.status = "pending"
                    /\ i.total_amount \in SnapshotCosts(inv_reqs[r].thread_id)]_vars

ThreadLineItems(items, L, t) ==
    {li \in items : li.message_id \in ThreadMessageIds(L, t)}

\* every message of thread t has token records, and every token record of
\* the thread has a line item written by the billing processor
AllPricedByProcessor(t) ==
    /\ \A m \in ThreadMessageIds(Ledger, t) :
          \E tok \in message_tokens : tok.message_id = m
    /\ \A tok \in message_tokens :
          tok.message_id \in ThreadMessageIds(Ledger, t) =>
              \E li \in line_items : li.token_id = tok.token_id

\* C16: for a thread priced by the processor, the line items the replay
\* produces have the processor's total (to within 1e-6), and the total of
\* all line items stored for the thread is the same after the replay as
\* before: no token record is charged a second time.
C16_ReplayAgreesWithProcessor ==
    \A t \in Threads :
        AllPricedByProcessor(t) =>
            /\ Abs(SumAmount(ReplayLineItems(Ledger, t, token_pricing))
                     - SumAmount(ThreadLineItems(line_items, Ledger, t))) <= Tolerance
            /\ SumAmount(ThreadLineItems(
                     line_items \cup ReplayLineItems(Ledger, t, token_pricing),
                     Ledger, t))
                 = SumAmount(ThreadLineItems(line_items, Ledger, t))

\* C17: an invoice row, once in the table, stays in it with every field as
\* it was: no step changes total_amount or status.
C17_InvoiceIsSnapshot ==
    [][\A i \in invoices : i \in invoices']_vars

\* an invoice of total 0 whose thread has since been priced by the
\* processor: the token events were committed, the thread metrics were
\* recomputed and cached with a higher cost, and a generate-invoice call
\* has returned the invoice
C17_Witness ==
    \E i \in invoices :
        /\ AllPricedByProcessor(i.thread_id)
        /\ thread_metrics[i.thread_id] # {}
        /\ \A m \in thread_metrics[i.thread_id] : m.metrics.total_cost > i.total_amount
        /\ \E r \in InvSlots :
              /\ inv_reqs[r].pc = "done"
              /\ inv_reqs[r].kind = "existing"
              /\ inv_reqs[r].invoice_id = i.invoice_id

----------------------------------------------------------------------------
\* Resource events and the consumer loop

\* the consumer takes the next payload of the inference topic in this step
ConsumerTakes(e) ==
    /\ res_consumed' = res_consumed + 1
    /\ inference_topic # <<>>
    /\ e = Head(inference_topic)

WellFormed(e) == e.kind = "object" /\ ~ResMalformed(e)

\* the current price rows for the event's model and named event type
PriceRowsFor(e) ==
    {p \in resource_pricing :
        /\ p.is_current
        /\ p.model_id = e.model_id
        /\ \E t \in event_types :
              t.event_name = e.event_type /\ t.event_type_id = p.event_type_id}

\* C18: handling a well-formed resource event whose (model, event type) has
\* no current price never adds a resource line item, and when the handler
\* commits it has added exactly one ApiEvent, with the event's user, model
\* and quantity.
C18_UnpricedEventRecordedNotBilled ==
    [][\A e \in ResourceEvents :
          (ConsumerTakes(e) /\ WellFormed(e) /\ PriceRowsFor(e) = {}) =>
              /\ resource_line_items' = resource_line_items
              /\ res_outcome' = "committed" =>
                    \E a \in api_events' \ api_events :
                        /\ api_events' = api_events \cup {a}
                        /\ a.user_id = e.user_id
                        /\ a.model_id = e.model_id
                        /\ a.quantity = QuantityOf(e)
                        /\ \E t \in event_types' :
                              /\ t.event_type_id = a.event_type_id
                              /\ t.event_name = e.event_type]_vars

\* an event of an event type created on the fly is stored and nothing is
\* billed
C18_Witness ==
    /\ res_outcome = "committed"
    /\ resource_line_items = {}
    /\ \E a \in api_events :
          /\ a.quantity > 0
          /\ \E t \in event_types \ SeededEventTypes :
                t.event_type_id = a.event_type_id

\* C19: handling a well-formed resource event whose (model, event type) has
\* a current price either commits exactly one ApiEvent and exactly one
\* resource line item, the line item referencing that event and the price
\* row with amount = quantity * unit_price, or ends in an error; and a
\* well-formed event whose handling ends in an error leaves the event
\* types, the events and the line items as they were.
C19_PricedEventBilledAtomically ==
    [][\A e \in ResourceEvents :
          (ConsumerTakes(e) /\ WellFormed(e)) =>
              /\ (PriceRowsFor(e) # {} /\ res_outcome' = "committed") =>
                    \E a \in api_events' \ api_events,
                       l \in resource_line_items' \ resource_line_items,
                       p \in PriceRowsFor(e) :
                        /\ api_events' = api_events \cup {a}
                        /\ resource_line_items' = resource_line_items \cup {l}
                        /\ a.user_id = e.user_id
                        /\ a.model_id = e.model_id
                        /\ a.event_type_id = p.event_type_id
                        /\ a.quantity = QuantityOf(e)
                        /\ l.event_id = a.event_id
                        /\ l.resource_pricing_id = p.resource_pricing_id
                        /\ l.quantity = QuantityOf(e)
                        /\ l.amount = QuantityOf(e) * p.unit_price
              /\ res_outcome' # "committed" =>
                    UNCHANGED <<event_types, api_events, resource_line_items>>]_vars

\* a priced event has been billed and the handling of a later event has
\* ended in an error
C19_Witness ==
    /\ res_outcome \in {"rolled_back", "raised"}
    /\ \E l \in resource_line_items, p \in resource_pricing :
          /\ l.resource_pricing_id = p.resource_pricing_id
          /\ l.quantity > 1
          /\ l.amount = l.quantity * p.unit_price

\* how the handling of a message ends when an exception reaches the
\* consumer loop
ConsumerCaught == {"read_error", "raised"}

\* C20: a step of the consumer takes exactly the oldest message and leaves
\* the later ones on the stream, the task is never ended by a message, and
\* whenever the handling of a message has ended in an exception and a
\* later message is on the stream, that message is taken as well.
C20_BadEventDoesNotStallStream ==
    /\ [][res_consumed' # res_consumed =>
             /\ inference_topic # <<>>
             /\ inference_topic' = Tail(inference_topic)
             /\ res_proc'.pc \in {"idle", "invalidate_user"}]_vars
    /\ \A n \in 1..MaxResourceEvents :
          (res_consumed = n /\ res_outcome \in ConsumerCaught
              /\ inference_topic # <<>>) ~> (res_consumed > n)

\* after an exception was caught a later message has been handled and
\* committed
C20_Witness ==
    /\ consumer_errors > 0
    /\ res_outcome = "committed"
    /\ res_consumed > 1
    /\ api_events # {}

----------------------------------------------------------------------------
\* Shutdown

\* C21: once KafkaConsumerService.close has returned (and so when the
\* Redis connection is closed and when the worker has stopped) no handler
\* is in the middle of an event: a handler that was running when the
\* shutdown was requested has finished its cache steps first.
C21_HandlerDrainsBeforeStop ==
    service \in {"consumers_stopped", "redis_closed", "loop_stopped"} =>
        proc.pc = "idle"

----------------------------------------------------------------------------
\* The cache is not part of billing

\* the token-metrics handler is at one of its cache operations
TokenCacheStep ==
    proc.pc \in {"invalidate_thread", "invalidate_user", "store"} /\ proc' # proc

\* the resource handler is at its cache operation
ResourceCacheStep ==
    res_proc.pc = "invalidate_user" /\ res_proc' # res_proc

\* C22: a cache operation of a handler, whether it succeeds or fails,
\* leaves every ledger table and every resource table as committed, and
\* the handler goes on to its next step or returns: a failed invalidation
\* is followed by the settling delay and the recompute, a failed store by
\* the return of the handler, and nothing is rolled back.
C22_LedgerIndependentOfCache ==
    [][(TokenCacheStep =>
          (/\ UNCHANGED <<ledger_vars, commits>>
           /\ (proc.pc = "invalidate_thread" => proc'.pc = "invalidate_user")
           /\ (proc.pc = "invalidate_user" => proc'.pc = "sleep")
           /\ (proc.pc = "store" =>
                 (proc' = IdleProc /\ last_outcome' \in {"refreshed", "not_cached"}))))
       /\
       (ResourceCacheStep =>
          (/\ UNCHANGED <<event_types, api_events, resource_line_items>>
           /\ res_proc' = IdleResProc
           /\ res_outcome' = "committed"))]_vars

\* both handlers have committed rows and returned although the thread
\* metrics could not be stored and the cache holds nothing
C22_Witness ==
    /\ proc = IdleProc
    /\ last_outcome = "not_cached"
    /\ line_items # {}
    /\ thread_metrics = [t \in Threads |-> {}]
    /\ res_proc = IdleResProc
    /\ res_outcome = "committed"
    /\ api_events # {}

----------------------------------------------------------------------------
\* Price tables

CurrentTokenRows(pricing, m) == {p \in pricing : p.model_id = m /\ p.is_current}

CurrentResourceRows(pricing, m, t) ==
    {p \in pricing : p.model_id = m /\ p.event_type_id = t /\ p.is_current}

----------------------------------------------------------------------------
\* Line item amounts

\* the unit price of a token type in a price row
UnitPrice(p, type) ==
    IF type = "input" THEN p.input_token_price ELSE p.output_token_price

\* C24: every stored line item references a stored token record and a
\* stored price row, and its amount is the record's token count times the
\* row's unit price for the record's token type, rounded to 6 fractional
\* digits.
C24_LineItemAmountIsRoundedProduct ==
    \A li \in line_items :
        \E tok \in message_tokens, p \in token_pricing :
            /\ tok.token_id = li.token_id
            /\ p.pricing_id = li.pricing_id
            /\ li.amount = LineAmount(tok.token_count, UnitPrice(p, tok.token_type))


\* ---------------------------------------------------------------------
\* The price row init_db.py lists for claude-3-5-haiku: 0.00000025 per
\* input token and 0.00000075 per output token (25 and 75 units of 1e-8).
HaikuInputPrice == 25

HaikuOutputPrice == 75

HaikuPricing ==
    {[pricing_id |-> 1, model_id |-> 1, input_token_price |-> HaikuInputPrice,
      output_token_price |-> HaikuOutputPrice, effective_from |-> 1,
      is_current |-> TRUE]}

MaxHaikuInputTokens == 5

MaxHaikuOutputTokens == 12

\* One thread of one user message and one assistant message, both
\* delivered to their topics, priced at the haiku row; the token counts
\* range up to the bounds.
InitHaiku ==
    /\ InitTurn(MaxHaikuInputTokens, MaxHaikuOutputTokens)
    /\ TurnDelivered
    /\ message_tokens = {}
    /\ line_items = {}
    /\ token_pricing = HaikuPricing
    /\ commits = 0
    /\ thread_metrics = [t \in Threads |-> {}]
    /\ user_metrics = [u \in Users |-> {}]
    /\ token_metrics_topic = <<>>
    /\ published = 0
    /\ proc = IdleProc
    /\ last_outcome = "none"
    /\ reader = IdleReader
    /\ cache_tasks = {}
    /\ reads = 0
    /\ InitUserEndpoint
    /\ InitNoChat
    /\ InitNoInvoices
    /\ InitNoResourceEvents
    /\ NoResourceRows

SpecHaiku == InitHaiku /\ [][Next]_vars

\* The thread metrics computed in a state: by the endpoint on a cache miss
\* and by the processor before it stores the entry.
ComputedMetrics ==
    (IF reader.pc = "done" /\ reader.kind = "computed" THEN reader.metrics ELSE {})
    \cup (IF proc.pc = "store" THEN {c.metrics : c \in proc.entry} ELSE {})

HaikuScenario(m) ==
    /\ m.thread_id = 1
    /\ m.total_input_tokens = 5
    /\ m.total_output_tokens = 12

\* C25 as stated: for a thread with one user message of 5 input tokens and
\* one assistant message of 12 output tokens, priced 0.00000025 per input
\* token and 0.00000075 per output token, the thread metrics report
\* total_cost 0.00001025 (1025 units of 1e-8).
C25_ScenarioCostIs1025 ==
    \A m \in ComputedMetrics : HaikuScenario(m) => m.total_cost = 1025

\* C25 amended: in that scenario the thread metrics report 5 input tokens,
\* 12 output tokens and total_cost 0.00001 (1000 units): the sum
\* 0.00001025 rounded to 6 fractional digits.
C25_ScenarioCostIsRounded ==
    \A m \in ComputedMetrics :
        HaikuScenario(m) =>
            /\ m.total_cost = ThreadCost(5, HaikuInputPrice, 12, HaikuOutputPrice)
            /\ m.total_cost = 1000

\* C25 witness: the endpoint has answered a cache miss for the thread with
\* 5 input and 12 output tokens read from its token records.
C25_Witness ==
    /\ reader.pc = "done"
    /\ reader.kind = "computed"
    /\ \E m \in reader.metrics : HaikuScenario(m) /\ m.total_cost = 1000
    /\ TokenTotal(Ledger, 1, "input") = 5
    /\ TokenTotal(Ledger, 1, "output") = 12


\* The pricing ids of the current price row of the model of message mid.
OwnModelPriceIds(L, mid) ==
    {p.pricing_id : p \in CurrentPricing(token_pricing, L.messages[mid].model_id)}

\* C26: after handle_token_metrics commits an event for message m,
\* m.token_count is the event's input_tokens if m is a user message and
\* its output_tokens otherwise, and every line item the handler wrote for m
\* references the current price row of m's own model: one such line item
\* for each token type with a positive count when that row exists, and
\* none that references another row.
C26_PricedByMessageModel ==
    [][HandlerCommits =>
          LET e == proc'.event
              m == e.message_id
              own == OwnModelPriceIds(Ledger, m)
              new == line_items' \ line_items
          IN /\ messages'[m].token_count
                   = (IF messages[m].role = "user"
                      THEN e.input_tokens ELSE e.output_tokens)
             /\ \A li \in new : li.message_id = m /\ li.pricing_id \in own
             /\ (own # {}) =>
                   \A tok \in message_tokens' :
                       (tok.message_id = m /\ tok.token_count > 0
                        /\ ((tok.token_type = "input" /\ e.input_tokens > 0)
                            \/ (tok.token_type = "output" /\ e.output_tokens > 0)))
                       => \E li \in new : li.token_id = tok.token_id]_vars


\* the thread has no token records (both aggregated totals are zero)
NoTokenTotals(L, t) ==
    TokenTotal(L, t, "input") = 0 /\ TokenTotal(L, t, "output") = 0

\* the metrics are the sums of the messages' token_count, by role
FallbackTotals(m, L, t) ==
    /\ m.total_input_tokens = RoleTokenTotal(L, t, "user")
    /\ m.total_output_tokens = RoleTokenTotal(L, t, "assistant")

\* C27: a recomputation of the metrics of a thread without token records
\* reports the sums of the messages' token_count by role, on the API read
\* (cache miss) and on the processor's refresh alike.
C27_FallbackOnEveryRecompute ==
    [][/\ (reader.pc = "miss" /\ reader'.pc = "done"
           /\ NoTokenTotals(Ledger, reader.thread_id))
          => \A m \in reader'.metrics :
                 FallbackTotals(m, Ledger, reader.thread_id)
       /\ (proc.pc = "recompute" /\ proc'.pc = "store"
           /\ NoTokenTotals(Ledger, proc.thread_id))
          => \A c \in proc'.entry :
                 FallbackTotals(c.metrics, Ledger, proc.thread_id)]_vars


\* the token records of message m of one type, and the line items that
\* reference them
TypeRecords(toks, m, type) ==
    {t \in toks : t.message_id = m /\ t.token_type = type}

TypeLineItems(items, toks, m, type) ==
    {li \in items : \E t \in TypeRecords(toks, m, type) : li.token_id = t.token_id}

\* C28: a run of handle_token_metrics leaves the token records and the
\* line items of a token type whose count in the event is 0 exactly as
\* they were.
C28_ZeroCountTypeUntouched ==
    [][HandlerStep =>
          \A type \in {"input", "output"} :
              LET e == HandledEvent
              IN EventCount(e, type) = 0 =>
                    /\ TypeRecords(message_tokens', e.message_id, type)
                          = TypeRecords(message_tokens, e.message_id, type)
                    /\ TypeLineItems(line_items', message_tokens', e.message_id, type)
                          = TypeLineItems(line_items, message_tokens, e.message_id, type)]_vars

\* C28 witness: the handler has committed an event with no input tokens
\* and some output tokens for a message that already had a priced input
\* record; the input record and its line item are still there.
C28_Witness ==
    /\ proc.pc = "invalidate_thread"
    /\ proc.event.input_tokens = 0
    /\ proc.event.output_tokens > 0
    /\ TypeRecords(message_tokens, proc.event.message_id, "output") # {}
    /\ TypeLineItems(line_items, message_tokens, proc.event.message_id, "input") # {}


\* ---------------------------------------------------------------------
\* The raw_messages and llm_responses streams
\* (message_processor.py handle_raw_message, handle_llm_response)

MaxStreamMessages == 2

\* payloads of the two topics: message id, thread id (NoId: none) and
\* token_usage (Absent: none)
StreamPayloads ==
    [message_id : {1, NoId}, thread_id : {1, NoId}, token_usage : {Absent, 1}]

\* everything but the two streams' own variables and the ledger
stream_frame_vars == <<commits, cache_vars, token_metrics_topic, published, proc,
                       last_outcome, background_tasks, task_pc, turn, reader_vars, user_rd_vars,
                       inv_vars, res_vars, boot_vars, service, chat_vars>>

\* kafka_service.py publish_raw_message / publish_llm_response
PublishStreamMessage(s, d) ==
    /\ msg_published < MaxStreamMessages
    /\ stream_topics' = [stream_topics EXCEPT ![s] = Append(@, d)]
    /\ msg_published' = msg_published + 1
    /\ UNCHANGED <<thread_messages, message_tokens_cache, msg_procs,
                   ledger_vars, stream_frame_vars>>

\* handle_llm_response line 58: `if data.get('message_id') and
\* data.get('token_usage')`; handle_raw_message has no such step
StoresTokenUsage(s, d) ==
    s = "llm_responses" /\ d.message_id # NoId /\ d.token_usage # Absent

\* where the handler goes after the thread_messages part
AfterThreadMessages(s, d) ==
    IF StoresTokenUsage(s, d)
    THEN [pc |-> "tokens", data |-> d, cached |-> <<>>,
          read_ok |-> msg_procs[s].read_ok]
    ELSE [IdleMsgProc EXCEPT !.read_ok = msg_procs[s].read_ok]

\* _consume_messages takes the next payload and the handler starts
\* (lines 24-25 and 45-46: `if thread_id:`)
TakeStreamMessage(s) ==
    /\ ConsumerReady(msg_procs[s])
    /\ stream_topics[s] # <<>>
    /\ stream_topics' = [stream_topics EXCEPT ![s] = Tail(@)]
    /\ LET d == Head(stream_topics[s])
       IN msg_procs' = [msg_procs EXCEPT ![s] =
                           IF d.thread_id # NoId
                           THEN [pc |-> "read", data |-> d, cached |-> <<>>,
                                 read_ok |-> TRUE]
                           ELSE AfterThreadMessages(s, d)]
    /\ UNCHANGED <<thread_messages, message_tokens_cache, msg_published,
                   ledger_vars, stream_frame_vars>>

\* lines 27 and 48: get_thread_messages; a Redis error reads as no entry
ReadThreadMessages(s) ==
    /\ msg_procs[s].pc = "read"
    /\ \E ok \in BOOLEAN :
          msg_procs' = [msg_procs EXCEPT ![s].pc = "write",
                           ![s].read_ok = ok,
                           ![s].cached = IF ok
                                         THEN thread_messages[msg_procs[s].data.thread_id]
                                         ELSE <<>>]
    /\ UNCHANGED <<thread_messages, message_tokens_cache, stream_topics,
                   msg_published, ledger_vars, stream_frame_vars>>

LedgerCountsStreamTokens(L, d) ==
    IF d.message_id \in DOMAIN L.messages /\ d.token_usage # Absent
    THEN [L EXCEPT !.messages[d.message_id].token_count = @ + d.token_usage]
    ELSE L

\* "No database operations needed as message is already stored"
\* (lines 38 and 64): the handlers never use their session
LedgerAfterStreamHandler(L, d) == L

\* lines 29-35 and 50-56: cache_thread_messages with the payload appended
\* to the list read, or alone when nothing was read
WriteThreadMessages(s) ==
    /\ msg_procs[s].pc = "write"
    /\ LET d == msg_procs[s].data
           c == msg_procs[s].cached
       IN /\ \E ok \in BOOLEAN :
                thread_messages' =
                    IF ok
                    THEN [thread_messages EXCEPT ![d.thread_id] =
                             IF c # <<>> THEN Append(c, d) ELSE <<d>>]
                    ELSE thread_messages
          /\ msg_procs' = [msg_procs EXCEPT ![s] = AfterThreadMessages(s, d)]
          /\ SetLedger(LedgerAfterStreamHandler(Ledger, d))
    /\ UNCHANGED <<message_tokens_cache, stream_topics, msg_published,
                   stream_frame_vars>>

\* handle_llm_response lines 58-62: update_message_tokens
UpdateMessageTokens ==
    /\ msg_procs["llm_responses"].pc = "tokens"
    /\ LET d == msg_procs["llm_responses"].data
       IN \E ok \in BOOLEAN :
             message_tokens_cache' =
                 IF ok
                 THEN [message_tokens_cache EXCEPT ![d.message_id] = d.token_usage]
                 ELSE message_tokens_cache
    /\ msg_procs' = [msg_procs EXCEPT !["llm_responses"] =
                        [IdleMsgProc EXCEPT !.read_ok =
                                                msg_procs["llm_responses"].read_ok]]
    /\ UNCHANGED <<thread_messages, stream_topics, msg_published,
                   ledger_vars, stream_frame_vars>>

\* The two streams next to the token-metrics pipeline of one turn.
NextMessages ==
    \/ \E s \in MsgStreams, d \in StreamPayloads : PublishStreamMessage(s, d)
    \/ \E s \in MsgStreams : TakeStreamMessage(s)
    \/ \E s \in MsgStreams : ReadThreadMessages(s)
    \/ \E s \in MsgStreams : WriteThreadMessages(s)
    \/ UpdateMessageTokens
    \/ ProcessMessageTokens
    \/ HandleTokenMetrics
    \/ InvalidateThread
    \/ InvalidateUser
    \/ Settle
    \/ Recompute
    \/ Store
    \/ CacheExpire

\* one turn whose two messages carry one token each
InitMessageStreams == InitLedger /\ messages = InitMessages(1, 1)

SpecMessages == InitMessageStreams /\ [][NextMessages]_vars

\* that turn with both payloads delivered
InitDeliveredTurn == InitMessageStreams /\ TurnDelivered

\* the step is taken by handle_raw_message or handle_llm_response
StreamHandlerStep == msg_procs' # msg_procs

\* C29: a step of handle_raw_message or handle_llm_response leaves the
\* message, token record, line item, price, resource event and invoice
\* rows and the thread_metrics and user_metrics entries unchanged; it
\* writes nothing but the thread_messages and message_tokens cache keys.
C29_StreamHandlersOnlyCacheMessages ==
    [][StreamHandlerStep =>
          UNCHANGED <<ledger_vars, api_events, resource_line_items, invoices,
                      thread_metrics, user_metrics>>]_vars

\* C29 witness: both handlers have run to the end, with the LLM response's
\* token usage cached, after the ledger has been priced.
C29_Witness ==
    /\ msg_procs = [s \in MsgStreams |-> IdleMsgProc]
    /\ msg_published = MaxStreamMessages
    /\ stream_topics = [s \in MsgStreams |-> <<>>]
    /\ Len(thread_messages[1]) = 2
    /\ message_tokens_cache[1] # NULL
    /\ line_items # {}


\* the step takes a payload from the inference-events topic
ResourceTakeStep == res_consumed' = res_consumed + 1

\* C30: each consumer takes the payloads of its topic one at a time and in
\* delivery order: it takes the head of the topic, and only when the
\* handler of the payload before (with its settling delay and its cache
\* refresh) has returned; the payloads behind it stay in order.
C30_OneAtATimeInOrder ==
    [][/\ HandlerStep =>
             /\ proc.pc = "idle"
             /\ token_metrics_topic' = Tail(token_metrics_topic)
             /\ (proc'.pc # "idle" => proc'.event = Head(token_metrics_topic))
       /\ ResourceTakeStep =>
             /\ res_proc.pc = "idle"
             /\ inference_topic' = Tail(inference_topic)
       /\ (proc.pc # "idle" /\ ~HandlerStep) =>
             /\ (proc'.pc # "idle" => proc'.event = proc.event)
             /\ Len(token_metrics_topic') >= Len(token_metrics_topic)
             /\ SubSeq(token_metrics_topic', 1, Len(token_metrics_topic))
                    = token_metrics_topic]_vars

\* C30 witness: the token-metrics handler is in its settling delay with the
\* next event of its topic waiting, while the inference-events handler is
\* in the middle of its own run.
C30_Witness ==
    /\ proc.pc = "sleep"
    /\ token_metrics_topic # <<>>
    /\ res_proc.pc = "invalidate_user"
    /\ inference_topic # <<>>


\* ---------------------------------------------------------------------
\* The consumer loops and KafkaConsumerService.close
\* (kafka_consumer_service.py lines 60-126)

ExitedProc == [IdleProc EXCEPT !.pc = "exited"]

ExitedResProc == [IdleResProc EXCEPT !.pc = "exited"]

\* the inference-events loop takes a payload only while stop_event is not
\* set (lines 89-95)
ConsumeWhileRunning ==
    /\ ConsumerMayTake(service)
    /\ ConsumeInference

\* line 117: the fetch raises while the loop is consuming
FetchErrorWhileRunning ==
    /\ service = "running"
    /\ ConsumerFetchError

\* the inference-events handler and the back-off sleep go on for as long
\* as the event loop runs
ResourceTaskGoesOn ==
    /\ service # "loop_stopped"
    /\ \/ ResInvalidateUser
       \/ ConsumerRetry

\* lines 89-95 and 117-126 with stop_event set: the loop leaves `async
\* for` and the `while` test fails, so the task returns.  Either the
\* iterator still yields a payload, which line 94 throws away without a
\* handler call (fetched), or the iteration ends without one (the stopped
\* consumer, or a fetch error that skips the sleep of line 120)
TokenLoopExits ==
    /\ service \in {"stopping", "consumers_stopped", "redis_closed"}
    /\ proc.pc = "idle"
    /\ proc' = ExitedProc
    /\ \E fetched \in BOOLEAN :
          /\ fetched => token_metrics_topic # <<>>
          /\ token_metrics_topic' = (IF fetched THEN Tail(token_metrics_topic)
                                     ELSE token_metrics_topic)
    /\ UNCHANGED <<ext_vars, ledger_vars, commits, cache_vars,
                   published, last_outcome, background_tasks, task_pc, turn, reader_vars>>

ResourceLoopExits ==
    /\ service \in {"stopping", "consumers_stopped", "redis_closed"}
    /\ res_proc.pc = "idle"
    /\ res_proc' = ExitedResProc
    /\ \E fetched \in BOOLEAN :
          /\ fetched => inference_topic # <<>>
          /\ inference_topic' = (IF fetched THEN Tail(inference_topic)
                                 ELSE inference_topic)
    /\ UNCHANGED <<ledger_vars, commits, cache_vars, token_metrics_topic,
                   published, proc, last_outcome, background_tasks, task_pc, turn, reader_vars,
                   user_rd_vars, svc_vars, inv_vars, event_types, api_events,
                   resource_line_items, resource_pricing,
                   res_published, res_outcome, res_consumed, fetch_errors,
                   consumer_errors>>

\* lines 123-124: the event loop ends and cancels the tasks that are left:
\* CancelledError is raised at the task's await and the loop is left
TasksCancelled ==
    /\ service = "loop_stopped"
    /\ proc.pc # "exited" \/ res_proc.pc # "exited"
    /\ proc' = ExitedProc
    /\ res_proc' = ExitedResProc
    /\ UNCHANGED <<ledger_vars, commits, cache_vars, token_metrics_topic,
                   published, last_outcome, background_tasks, task_pc, turn, reader_vars,
                   user_rd_vars, svc_vars, inv_vars, event_types, api_events,
                   resource_line_items, resource_pricing, inference_topic,
                   res_published, res_outcome, res_consumed, fetch_errors,
                   consumer_errors>>

\* one image analysis payload of model 1 and one payload that is not a
\* JSON object
CloseResourceEvents ==
    {e \in StreamResourceEvents :
        e.kind = "object" => (e.user_id = 1 /\ e.model_id = 1)}

NextClose ==
    \/ ProcessMessageTokens
    \/ TakeWhileRunning
    \/ HandlerGoesOn
    \/ \E e \in CloseResourceEvents : PublishInference(e)
    \/ ConsumeWhileRunning
    \/ FetchErrorWhileRunning
    \/ ResourceTaskGoesOn
    \/ CloseRequested
    \/ ConsumersStopped
    \/ RedisClosed
    \/ LoopStops
    \/ TokenLoopExits
    \/ ResourceLoopExits
    \/ TasksCancelled
    \/ CacheExpire

\* every task that is ready to run is run by the event loop
SpecClose ==
    /\ InitDeliveredTurn
    /\ [][NextClose]_vars
    /\ WF_vars(HandlerGoesOn)
    /\ WF_vars(ResourceTaskGoesOn)
    /\ WF_vars(TokenLoopExits)
    /\ WF_vars(ResourceLoopExits)
    /\ WF_vars(TasksCancelled)

LoopsExited == proc.pc = "exited" /\ res_proc.pc = "exited"

\* the step hands a payload of the token-metrics topic to
\* handle_token_metrics: the payload leaves the topic and the loop goes on
TokenPayloadHandled == HandlerStep /\ proc'.pc # "exited"

\* the step hands a payload of the inference topic to
\* handle_inference_events
ResourcePayloadHandled == ResourceTakeStep /\ res_proc'.pc # "exited"

\* C31: a consumer loop ends only after the shutdown signal is set (until
\* then it goes on consuming, also after a consumer error); once close has
\* been called every loop eventually ends, and no payload is handed to a
\* handler after the signal, whenever it was published.
C31_LoopsRunUntilSignalThenExit ==
    /\ [][/\ (proc'.pc = "exited" /\ proc.pc # "exited") => service # "running"
          /\ (res_proc'.pc = "exited" /\ res_proc.pc # "exited")
                => service # "running"
          /\ (TokenPayloadHandled \/ ResourcePayloadHandled)
                => service = "running"]_vars
    /\ (service # "running") ~> LoopsExited

\* C31 witness: close was called while the token-metrics handler was past
\* its commit and after the inference-events consumer had recovered from a
\* fetch error and handled a payload; the next payload, which the
\* inference loop fetched after the signal, was thrown away without a
\* handler call, and both loops have ended before the event loop stopped.
C31_Witness ==
    /\ LoopsExited
    /\ service = "redis_closed"
    /\ fetch_errors > 0
    /\ res_consumed > 0
    /\ last_outcome \in {"refreshed", "not_cached"}
    /\ res_published = res_consumed + 1
    /\ inference_topic = <<>>


\* ---------------------------------------------------------------------
\* Payloads at the boundary of the two billing topics

\* token-metrics payloads: those that lack a required field, and one
\* complete payload per message
BoundaryEvents ==
    {e \in Events :
        e.message_id = NoId \/ e.model_id = NoId
        \/ (e.input_tokens <= 1 /\ e.output_tokens = 1)}

\* inference payloads: complete, and lacking each required field in turn
BoundaryResourceEvents ==
    {[kind |-> "object", user_id |-> u, message_id |-> 1, event_type |-> t,
      model_id |-> m, quantity |-> 1] :
        u \in {1, NoId}, t \in {"image_analysis", ""}, m \in {1, NoId}}

NextBoundary ==
    \/ \E e \in BoundaryEvents : PublishTokenMetrics(e)
    \/ HandleTokenMetrics
    \/ InvalidateThread
    \/ InvalidateUser
    \/ Settle
    \/ Recompute
    \/ Store
    \/ \E e \in BoundaryResourceEvents : PublishInference(e)
    \/ ConsumeInference
    \/ ResInvalidateUser
    \/ CacheExpire

SpecBoundary == InitDeliveredTurn /\ [][NextBoundary]_vars

\* C32: a token-metrics payload without message_id or model_id, and an
\* inference payload without user_id, event_type or model_id, is dropped:
\* the handler returns without raising and leaves the ledger, the
\* resource tables and the metrics cache as they were.
C32_IncompletePayloadDropped ==
    [][/\ (HandlerStep /\ (HandledEvent.message_id = NoId
                           \/ HandledEvent.model_id = NoId))
          => /\ UNCHANGED <<ledger_vars, cache_vars, commits>>
             /\ proc' = IdleProc
             /\ last_outcome' = "malformed"
       /\ (ResourceTakeStep /\ Head(inference_topic).kind = "object"
           /\ (Head(inference_topic).user_id = NoId
               \/ Head(inference_topic).event_type = ""
               \/ Head(inference_topic).model_id = NoId))
          => /\ UNCHANGED <<event_types, api_events, resource_line_items,
                            resource_pricing, cache_vars>>
             /\ res_proc' = IdleResProc
             /\ res_outcome' = "dropped"
             /\ consumer_errors' = consumer_errors]_vars

\* C32 witness: after a complete payload was billed on each topic, each
\* handler has dropped an incomplete one.
C32_Witness ==
    /\ last_outcome = "malformed"
    /\ res_outcome = "dropped"
    /\ line_items # {}
    /\ api_events # {}
    /\ published = MaxEvents
    /\ res_published = MaxResourceEvents


\* ---------------------------------------------------------------------
\* A streamed chat turn (messages.py create_message_stream, websockets.py
\* handle_chat_message, anthropic_service.py stream_chat_completion)

MaxDeltas == 2

\* the text deltas of the LLM: a word or white space
Deltas == {"w", " "}

ErrorText == "error"

\* anthropic_service.py count_tokens (lines 43-47); the tokenizer is taken
\* to give one token per delta
CountTokens(text) == Len(text)

RECURSIVE StripLeft(_)
StripLeft(text) ==
    IF text # <<>> /\ Head(text) = " " THEN StripLeft(Tail(text)) ELSE text

RECURSIVE StripRight(_)
StripRight(text) ==
    IF text # <<>> /\ text[Len(text)] = " "
    THEN StripRight(SubSeq(text, 1, Len(text) - 1))
    ELSE text

\* str.strip()
Strip(text) == StripRight(StripLeft(text))

ChatEntries == {"create_message_stream", "handle_chat_message"}

\* The turn after both rows are committed: the user message (with its
\* token count on the HTTP endpoint, messages.py lines 320-324) and the
\* assistant placeholder with empty content
InitChat ==
    /\ \E entry \in ChatEntries :
          /\ chat = [NoChat EXCEPT !.entry = entry, !.pc = "streaming"]
          /\ messages = (IF entry = "create_message_stream"
                         THEN InitMessages(1, NULL)
                         ELSE InitMessages(NULL, NULL))
          /\ \E raw_sent \in BOOLEAN :
                InitTopics(Sent(<<>>, RawMessagePayload(1),
                                raw_sent /\ entry = "create_message_stream"),
                           <<>>)
    /\ contents = (1 :> <<"w">>) @@ (2 :> <<>>)
    /\ background_tasks = <<>>
    /\ task_pc = "commit"
    /\ turn = NoTurn
    /\ message_tokens = {}
    /\ line_items = {}
    /\ token_pricing = SeededPricing
    /\ commits = 0
    /\ thread_metrics = [t \in Threads |-> {}]
    /\ user_metrics = [u \in Users |-> {}]
    /\ token_metrics_topic = <<>>
    /\ published = 0
    /\ proc = IdleProc
    /\ last_outcome = "none"
    /\ reader = IdleReader
    /\ cache_tasks = {}
    /\ reads = 0
    /\ InitUserEndpoint
    /\ InitNoInvoices
    /\ InitNoResourceEvents
    /\ NoResourceRows

\* everything a streamed turn leaves alone while the stream runs
chat_frame_vars == <<message_tokens, line_items, token_pricing, commits, cache_vars,
                     token_metrics_topic, published, proc, last_outcome,
                     reader_vars, user_rd_vars, inv_vars, res_vars, boot_vars,
                     service>>

\* _process_stream yields a delta (lines 266-271), stream_chat_completion
\* counts and forwards it (lines 211-227), the handler appends it
\* (messages.py lines 356-360, websockets.py lines 167-169)
LlmDelta ==
    /\ chat.pc = "streaming"
    /\ Len(chat.text) < MaxDeltas
    /\ \E d \in Deltas :
          chat' = [chat EXCEPT
                      !.text = Append(@, d),
                      !.full_response = Append(@, d),
                      !.full_content = Append(@, d),
                      !.output_tokens = @ + CountTokens(<<d>>)]
    /\ UNCHANGED <<messages, contents, background_tasks, task_pc, turn, msg_vars, chat_frame_vars>>

\* the handler after its loop, up to its next await: the content (and on
\* the HTTP endpoint the token count) is assigned to the placeholder row
\* and committed (messages.py lines 368-372, websockets.py lines
\* 185-186).  A commit that raises leaves the row as it was and takes the
\* handler to its `except Exception` (messages.py line 406, websockets.py
\* line 201): nothing is published and no task is added.  After the
\* commit the HTTP generator waits in publish_llm_response; the WebSocket
\* handler sends its completion notice and is done.
StoreFullContent(c, how) ==
    /\ \E stored \in BOOLEAN :
          /\ chat' = [c EXCEPT !.outcome = how,
                               !.pc = IF ~stored THEN "error"
                                      ELSE IF c.entry = "create_message_stream"
                                      THEN "publish"
                                      ELSE how]
          /\ contents' = (IF stored THEN [contents EXCEPT ![2] = c.full_content]
                          ELSE contents)
          /\ messages' = (IF stored /\ c.entry = "create_message_stream"
                          THEN [messages EXCEPT ![2].token_count = c.output_tokens]
                          ELSE messages)
    /\ UNCHANGED <<background_tasks, task_pc, turn, msg_vars, chat_frame_vars>>

\* the LLM stream is over and delta text was received: _process_stream
\* yields its whole buffer once more (lines 273-275),
\* stream_chat_completion counts and forwards that chunk like a delta
\* (lines 211-227), the handler appends it and is suspended at its yield
\* (messages.py line 365) or its send (websockets.py lines 176-182)
LlmBufferChunk ==
    /\ chat.pc = "streaming"
    /\ chat.text # <<>>
    /\ chat' = [chat EXCEPT
                    !.pc = "buffer_sent",
                    !.full_response = @ \o chat.text,
                    !.full_content = @ \o chat.text,
                    !.output_tokens = @ + CountTokens(chat.text)]
    /\ UNCHANGED <<messages, contents, background_tasks, task_pc, turn, msg_vars, chat_frame_vars>>

\* stream_chat_completion lines 230-241: the final chunk, whose content is
\* the stripped full_response.  The HTTP handler appends it and yields
\* (messages.py lines 361-365); the WebSocket handler appends and sends
\* it only when it is not empty (websockets.py line 172), otherwise it
\* goes on to its commit without an await
LlmFinalChunk ==
    /\ chat.pc = (IF chat.text = <<>> THEN "streaming" ELSE "buffer_sent")
    /\ LET final == Strip(chat.full_response)
           c == [chat EXCEPT !.full_content = @ \o final]
       IN IF chat.entry = "handle_chat_message" /\ final = <<>>
          THEN StoreFullContent(c, "done")
          ELSE /\ chat' = [c EXCEPT !.pc = "final_sent"]
               /\ UNCHANGED <<messages, contents, background_tasks, task_pc, turn,
                              msg_vars, chat_frame_vars>>

\* the LLM call raises: stream_chat_completion yields one chunk with the
\* error message and output_tokens 0 (lines 243-258) and ends; the handler
\* appends the message and is suspended at its yield or send
LlmFails ==
    /\ chat.pc = "streaming"
    /\ chat' = [chat EXCEPT !.pc = "error_sent",
                            !.output_tokens = 0,
                            !.full_content = Append(@, ErrorText)]
    /\ UNCHANGED <<messages, contents, background_tasks, task_pc, turn, msg_vars, chat_frame_vars>>

\* the handler is resumed after the last chunk, the iteration of
\* stream_chat_completion ends and the handler commits
LlmEnds ==
    /\ chat.pc \in {"final_sent", "error_sent"}
    /\ StoreFullContent(chat, IF chat.pc = "final_sent" THEN "done" ELSE "failed")

\* messages.py lines 376-385: kafka_service.publish_llm_response hands the
\* payload to the producer, or fails and swallows the error; the
\* generator is still inside the await
PublishStreamedResponse ==
    /\ chat.pc = "publish"
    /\ chat' = [chat EXCEPT !.pc = "tasks"]
    /\ \E sent \in BOOLEAN :
          /\ stream_topics' = [stream_topics EXCEPT !["llm_responses"] =
                 Sent(@, LlmResponsePayload(1, chat.output_tokens), sent)]
          /\ msg_published' = msg_published + (IF sent THEN 1 ELSE 0)
    /\ UNCHANGED <<messages, contents, background_tasks, task_pc, turn,
                   thread_messages, message_tokens_cache, msg_procs,
                   chat_frame_vars>>

\* messages.py lines 388-404: the await has returned; the two
\* process_message_tokens tasks and force_refresh_metrics are added and
\* the generator ends
AddTokenTasks ==
    /\ chat.pc = "tasks"
    /\ chat' = [chat EXCEPT !.pc = chat.outcome]
    /\ background_tasks' = TurnTasks(messages[1].token_count, chat.output_tokens)
    /\ task_pc' = "commit"
    /\ UNCHANGED <<messages, contents, turn, msg_vars, chat_frame_vars>>

\* the client goes away while the handler is suspended after a chunk or,
\* on the HTTP endpoint, in the publish: the HTTP response generator is
\* cancelled at its yield or inside publish_llm_response (`except Exception` at messages.py
\* line 406 does not catch the cancellation: what is not yet stored,
\* published or added stays so), the WebSocket send raises in the loop and
\* the handler reports the error (websockets.py lines 201-222)
ClientDisconnects ==
    /\ chat.pc \in {"streaming", "buffer_sent", "final_sent", "error_sent"}
                   \cup (IF chat.entry = "create_message_stream"
                         THEN {"publish", "tasks"}
                         ELSE {})
    /\ chat' = [chat EXCEPT !.pc = "cancelled"]
    /\ UNCHANGED <<messages, contents, background_tasks, task_pc, turn, msg_vars, chat_frame_vars>>

NextChat ==
    \/ LlmDelta
    \/ LlmBufferChunk
    \/ LlmFinalChunk
    \/ LlmFails
    \/ LlmEnds
    \/ PublishStreamedResponse
    \/ AddTokenTasks
    \/ ClientDisconnects
    \/ ProcessMessageTokens
    \/ HandleTokenMetrics
    \/ InvalidateThread
    \/ InvalidateUser
    \/ Settle
    \/ Recompute
    \/ Store
    \/ CacheExpire

SpecChat == InitChat /\ [][NextChat]_vars

\* C33: when a streamed assistant response is cut short after deltas were
\* received, the text accumulated so far is written to the placeholder
\* assistant message.
C33_PartialContentStored ==
    (chat.pc \in {"failed", "cancelled"} /\ chat.text # <<>>)
        => /\ contents[2] # <<>>
           /\ Len(contents[2]) >= Len(chat.text)
           /\ SubSeq(contents[2], 1, Len(chat.text)) = chat.text


\* the turn has ended with the LLM stream complete
StreamCompleted == chat.entry # "none" /\ chat.pc = "done"

\* C35: the content stored for a streamed assistant message is the
\* concatenation of the LLM's deltas, each once, and the output token
\* count billed for it is the token count of that text.
C35_ContentIsDeltasOnce ==
    StreamCompleted =>
        /\ contents[2] = chat.text
        /\ (chat.entry = "create_message_stream" =>
               /\ messages[2].token_count = CountTokens(chat.text)
               /\ \A i \in 1..Len(background_tasks) :
                     background_tasks[i].message_id = 2 =>
                        background_tasks[i].output_tokens = CountTokens(chat.text))

\* every task that is ready to run is run: the background tasks of the
\* response and the consumer's handler
SpecChatFair ==
    /\ InitChat
    /\ [][NextChat]_vars
    /\ WF_vars(LlmBufferChunk)
    /\ WF_vars(LlmFinalChunk)
    /\ WF_vars(LlmEnds)
    /\ WF_vars(PublishStreamedResponse)
    /\ WF_vars(AddTokenTasks)
    /\ WF_vars(ProcessMessageTokens)
    /\ WF_vars(HandleTokenMetrics)
    /\ WF_vars(InvalidateThread)
    /\ WF_vars(InvalidateUser)
    /\ WF_vars(Settle)
    /\ WF_vars(Recompute)
    /\ WF_vars(Store)

\* C37: a chat turn that has stored its user message and its assistant
\* message eventually publishes a TokenMetrics event for each of them.
C37_TurnEventuallyPublishesBoth ==
    (1 \in DOMAIN messages /\ 2 \in DOMAIN messages) ~> (published >= 2)


\* C34: in every ledger state the processor's recomputation
\* (update_thread_metrics_cache) and the API's recomputation
\* (get_thread_billing_metrics on a miss) give the same metrics for every
\* thread.
C34_RecomputePathsAgree ==
    \A t \in Threads :
        ProcThreadMetrics(Ledger, t, token_pricing)
            = ApiThreadMetrics(Ledger, t, token_pricing)


\* sequence a is the beginning of sequence b
IsPrefix(a, b) == Len(a) <= Len(b) /\ SubSeq(b, 1, Len(a)) = a

\* C36: with a working cache no message is lost from the thread_messages
\* list: whenever handle_raw_message or handle_llm_response writes the
\* list back, the latest read of either handler having succeeded, every message
\* that was in the list is still there, followed by the handler's own.
C36_NoThreadMessageLost ==
    [][\A s \in MsgStreams :
          (/\ msg_procs[s].pc = "write"
           /\ msg_procs'[s].pc # "write"
           /\ \A r \in MsgStreams : msg_procs[r].read_ok
           /\ thread_messages' # thread_messages)
          => LET t == msg_procs[s].data.thread_id
             IN /\ IsPrefix(thread_messages[t], thread_messages'[t])
                /\ thread_messages'[t]
                      = Append(thread_messages[t], msg_procs[s].data)]_vars

----------------------------------------------------------------------------
\* The events of the API on the token-metrics topic

\* the committed token records of message m for one type with that count
CommittedRecord(toks, m, type, n) ==
    \E r \in TypeRecords(toks, m, type) : r.token_count = n

\* the step is process_message_tokens publishing its event
ApiPublishes ==
    Len(token_metrics_topic') = Len(token_metrics_topic) + 1

\* C38: a TokenMetrics event of the API is put on the topic only when the
\* Message row and the token records process_message_tokens inserted are
\* already committed; the processor never drops such an event as NotFound, and
\* when it commits the event the message has exactly one record of each
\* type counted, the processor's, in place of the one the API inserted.
C38_PublishedAfterCommit ==
    [][/\ ApiPublishes =>
             LET e == token_metrics_topic'[Len(token_metrics_topic')]
             IN /\ FindMessage(Ledger, e.message_id) # {}
                /\ e.message_id \in DOMAIN messages
                /\ e.input_tokens > 0 =>
                      CommittedRecord(message_tokens, e.message_id, "input",
                                      e.input_tokens)
                /\ e.output_tokens > 0 =>
                      CommittedRecord(message_tokens, e.message_id, "output",
                                      e.output_tokens)
       /\ last_outcome' # "not_found"
       /\ HandlerCommits =>
             LET e == Head(token_metrics_topic)
             IN /\ e.input_tokens > 0 =>
                      /\ TypeRecords(message_tokens, e.message_id, "input") # {}
                      /\ Cardinality(TypeRecords(message_tokens', e.message_id,
                                                 "input")) = 1
                      /\ CommittedRecord(message_tokens', e.message_id, "input",
                                         e.input_tokens)
                /\ e.output_tokens > 0 =>
                      /\ TypeRecords(message_tokens, e.message_id, "output") # {}
                      /\ Cardinality(TypeRecords(message_tokens', e.message_id,
                                                 "output")) = 1
                      /\ CommittedRecord(message_tokens', e.message_id, "output",
                                         e.output_tokens)]_vars

\* both events of the turn were published and the processor has committed
\* the one of the assistant reply, whose output record is its own
C38_Witness ==
    /\ published = 2
    /\ last_outcome = "committed"
    /\ proc.event.message_id = 2
    /\ proc.event.output_tokens > 0
    /\ Cardinality(TypeRecords(message_tokens, 2, "output")) = 1
    /\ Cardinality(TypeRecords(message_tokens, 1, "input")) = 1

----------------------------------------------------------------------------
\* The event collector service (event_collector/app/main.py) as producer of
\* the inference-events topic

\* a POST /events/resource body accepted as ResourceEvent (lines 45-63)
ResourceRequest(m, t, rt, q) ==
    [user_id |-> 1, model_id |-> m, event_type_id |-> t,
     quantity |-> q, resource_type |-> rt]

\* a POST /events/token body accepted as TokenEvent (lines 45-57)
TokenRequest(m, msg, inp, out) ==
    [user_id |-> 1, model_id |-> m, message_id |-> msg,
     input_tokens |-> inp, output_tokens |-> out, event_type_id |-> 1]

\* event.dict() of a ResourceEvent (lines 124-136): the fields of the
\* model and no others.  A key the payload does not have reads, in
\* handle_inference_events, as data.get gives it: None for event_type and
\* message_id.  endpoint records which route sent the payload.
ResourcePayload(r) ==
    [user_id |-> r.user_id, model_id |-> r.model_id, message_id |-> NoId,
     input_tokens |-> Absent, output_tokens |-> Absent,
     kind |-> "object", event_type_id |-> r.event_type_id,
     event_type |-> "", quantity |-> r.quantity,
     resource_type |-> r.resource_type, endpoint |-> "resource"]

\* event.dict() of a TokenEvent (lines 91-103): no event_type, no quantity
TokenPayload(r) ==
    [user_id |-> r.user_id, model_id |-> r.model_id,
     message_id |-> r.message_id,
     input_tokens |-> r.input_tokens, output_tokens |-> r.output_tokens,
     kind |-> "object", event_type_id |-> r.event_type_id,
     event_type |-> "", quantity |-> Absent,
     resource_type |-> "", endpoint |-> "token"]

\* POST /events/batch forwards each dictionary of the body as it is (lines
\* 163-173); here the dictionaries a client writes for the handler
BatchPayload(q) ==
    [user_id |-> 1, model_id |-> 1, message_id |-> 1,
     input_tokens |-> Absent, output_tokens |-> Absent,
     kind |-> "object", event_type_id |-> Absent,
     event_type |-> "image_analysis", quantity |-> q,
     resource_type |-> "", endpoint |-> "batch"]

\* collect_resource_event lines 116-143: producer.send and flush
CollectResourceEvent ==
    \E m \in Models, t \in {1, 2},
       rt \in {"image_analysis", "image_generation"}, q \in 1..MaxQuantity :
          PublishInference(ResourcePayload(ResourceRequest(m, t, rt, q)))

\* collect_token_event lines 83-110
CollectTokenEvent ==
    \E m \in Models, msg \in {NoId, 1}, inp \in {0, 1}, out \in {0, 1} :
          PublishInference(TokenPayload(TokenRequest(m, msg, inp, out)))

\* collect_batch_events lines 149-181, a body of one dictionary
CollectBatchEvents ==
    \E q \in 1..MaxQuantity : PublishInference(BatchPayload(q))

NextCollector ==
    \/ CollectResourceEvent
    \/ CollectTokenEvent
    \/ CollectBatchEvents
    \/ ConsumeInference
    \/ ResInvalidateUser

SpecCollector == InitResource /\ [][NextCollector]_vars

\* the payload was published by collect_resource_event or
\* collect_token_event
FromTypedEndpoint(e) == e.endpoint \in {"resource", "token"}

\* C39: every payload that collect_resource_event or collect_token_event
\* publishes has the user_id, event_type and model_id that
\* handle_inference_events requires, and the handler does not drop it as
\* malformed.
C39_CollectorEventsRecorded ==
    [][(ResourceTakeStep /\ FromTypedEndpoint(Head(inference_topic)))
          => /\ Head(inference_topic).user_id # NoId
             /\ Head(inference_topic).event_type # ""
             /\ Head(inference_topic).model_id # NoId
             /\ res_outcome' # "dropped"]_vars

----------------------------------------------------------------------------
\* The seed

\* the step is a run of init_db
SetupStep == startups' = startups + 1

\* C40: a run of init_db on a database without models either leaves every
\* dimension table as it was or leaves the complete seed (the three
\* models, one current token price for each, event types, resource prices
\* and the test user); every model a run adds has exactly one current
\* token price; and a run on a database that holds a model changes no
\* dimension table.
C40_SeedAllOrNothing ==
    [][SetupStep =>
          /\ dim_models = {} =>
                \/ UNCHANGED <<dim_models, token_pricing, event_types,
                               resource_pricing, dim_users>>
                \/ /\ dim_models' = SeedModels
                   /\ \A m \in SeedModels :
                         Cardinality(CurrentTokenRows(token_pricing', m)) = 1
                   /\ event_types' # {}
                   /\ resource_pricing' # {}
                   /\ dim_users' # {}
          /\ \A m \in dim_models' \ dim_models :
                Cardinality(CurrentTokenRows(token_pricing', m)) = 1
          /\ dim_models # {} =>
                UNCHANGED <<dim_models, token_pricing, event_types,
                            resource_pricing, dim_users>>]_vars

\* init_db has run twice on a database without models and has left every
\* dimension table empty
C40_Witness ==
    /\ startups = MaxStartups
    /\ dim_models = {}
    /\ token_pricing = {}
    /\ event_types = {}
    /\ resource_pricing = {}
    /\ dim_users = {}

====
